---- MODULE Spec2Model ----
(***************************************************************************)
(* CVMaestro: the markdown resume parser (services/parser.py), the         *)
(* markdown formatter (services/formatter.py), the Resume model            *)
(* (models/resume.py) and the improvement workflow (main.py).              *)
(*                                                                         *)
(* A Python str is modelled as a sequence of characters, a character as a  *)
(* one-character TLA+ string; U+2022 (the bullet of the skills packing) is *)
(* the character Bullet.  A dict is modelled as the sequence of its items  *)
(* in insertion order, each item a record [name, body].                    *)
(***************************************************************************)
EXTENDS Integers, Sequences, FiniteSets, TLC

VARIABLES
    pc,          \* position of the caller in the scenario being run
    file,        \* the file at the path handed to parse_markdown_file
    fsCalls,     \* the file-system calls parse_markdown_file has made, in order
    result,      \* outcome of the last parse call: "none", "ok", "NotFound", "Malformed"
    content,     \* the text handed to _parse_markdown_content
    sections,    \* the section map (parser output / formatter input)
    template,    \* the template identifier handed to format_resume
    order,       \* ordered_sections as computed by the last format_resume
    doc,         \* the document returned by the last format_resume
    prevDoc,     \* the document of the first round of a round trip
    line,        \* the line handed to _extract_section_name
    name,        \* what _extract_section_name returned for it
    issues,      \* the list validate_parsed_resume returned
    raw_content,     \* Resume.raw_content
    revised_content, \* Resume.revised_content
    todo,        \* the sections _improve_resume_content has still to process
    log          \* what the user and the AI answered for each processed section

vars == <<pc, file, fsCalls, result, content, sections, template, order, doc,
          prevDoc, line, name, issues, raw_content, revised_content, todo, log>>

-----------------------------------------------------------------------------
(* Python str primitives                                                   *)

NL == "\n"
Bullet == "BULLET"

\* str.isspace / regex \s over the characters of the model
Whitespace == {" ", "\t", "\n", "\r"}

UpperToLower ==
    [A |-> "a", B |-> "b", C |-> "c", D |-> "d", E |-> "e", F |-> "f", G |-> "g",
     H |-> "h", I |-> "i", J |-> "j", K |-> "k", L |-> "l", M |-> "m", N |-> "n",
     O |-> "o", P |-> "p", Q |-> "q", R |-> "r", S |-> "s", T |-> "t", U |-> "u",
     V |-> "v", W |-> "w", X |-> "x", Y |-> "y", Z |-> "z"]

UpperLetters == DOMAIN UpperToLower
LowerLetters == {UpperToLower[c] : c \in UpperLetters}

LowerChar(c) == IF c \in UpperLetters THEN UpperToLower[c] ELSE c
UpperChar(c) == IF c \in LowerLetters
                THEN CHOOSE u \in UpperLetters : UpperToLower[u] = c
                ELSE c

\* str.lower()
Lower(s) == [i \in 1..Len(s) |-> LowerChar(s[i])]

\* str.upper()
Upper(s) == [i \in 1..Len(s) |-> UpperChar(s[i])]

\* str.title(): a cased character is upper-cased when the character before it
\* is not cased, lower-cased otherwise
Title(s) ==
    [i \in 1..Len(s) |->
        IF i > 1 /\ s[i-1] \in (UpperLetters \cup LowerLetters)
        THEN LowerChar(s[i]) ELSE UpperChar(s[i])]

\* str.isupper(): no lower-case character and at least one upper-case one
IsUpper(s) ==
    /\ \A i \in 1..Len(s) : s[i] \notin LowerLetters
    /\ \E i \in 1..Len(s) : s[i] \in UpperLetters

\* str.strip()
Strip(s) ==
    LET keep == {i \in 1..Len(s) : s[i] \notin Whitespace}
    IN  IF keep = {} THEN <<>>
        ELSE LET lo == CHOOSE i \in keep : \A j \in keep : i <= j
                 hi == CHOOSE i \in keep : \A j \in keep : j <= i
             IN  SubSeq(s, lo, hi)

\* "not s.strip()"
IsBlank(s) == \A i \in 1..Len(s) : s[i] \in Whitespace

\* str.startswith(p)
StartsWith(s, p) == Len(s) >= Len(p) /\ SubSeq(s, 1, Len(p)) = p

\* str.endswith(p)
EndsWith(s, p) == Len(s) >= Len(p) /\ SubSeq(s, Len(s) - Len(p) + 1, Len(s)) = p

\* c in s, for a character c
HasChar(s, c) == \E i \in 1..Len(s) : s[i] = c

\* s.split(c) for a one-character separator c: never an empty list
RECURSIVE Split(_, _)
Split(s, c) ==
    LET at == {i \in 1..Len(s) : s[i] = c}
    IN  IF at = {} THEN <<s>>
        ELSE LET i == CHOOSE k \in at : \A j \in at : k <= j
             IN  <<SubSeq(s, 1, i - 1)>> \o Split(SubSeq(s, i + 1, Len(s)), c)

\* sep.join(parts)
RECURSIVE Join(_, _)
Join(parts, sep) ==
    IF parts = <<>> THEN <<>>
    ELSE IF Len(parts) = 1 THEN parts[1]
    ELSE parts[1] \o sep \o Join(Tail(parts), sep)

\* replace every character a of s by the character b
ReplaceChar(s, a, b) == [i \in 1..Len(s) |-> IF s[i] = a THEN b ELSE s[i]]

-----------------------------------------------------------------------------
(* services/parser.py                                                      *)

\* None; also the empty name: the parser tests names by truthiness only
\* ("if section_name", "if current_section and current_content")
None == <<>>

\* One alternative of a pattern's group: its words, separated by \s+ in the
\* pattern, and the optional last character ("s?") or <<>>.
Alt(words, opt) == [words |-> words, opt |-> opt]

\* SECTION_PATTERNS: the groups of the eleven patterns "^#+\s*(a|b|...)", in
\* order; the twelfth, generic pattern "^#+\s*(.+)" is MatchGeneric.
SECTION_PATTERNS ==
    << << Alt(<<<<"s","u","m","m","a","r","y">>>>, <<>>), Alt(<<<<"p","r","o","f","i","l","e">>>>, <<>>), Alt(<<<<"o","b","j","e","c","t","i","v","e">>>>, <<>>) >>,
       << Alt(<<<<"e","x","p","e","r","i","e","n","c","e">>>>, <<>>), Alt(<<<<"w","o","r","k">>, <<"e","x","p","e","r","i","e","n","c","e">>>>, <<>>),
          Alt(<<<<"e","m","p","l","o","y","m","e","n","t">>>>, <<>>) >>,
       << Alt(<<<<"e","d","u","c","a","t","i","o","n">>>>, <<>>), Alt(<<<<"a","c","a","d","e","m","i","c">>, <<"b","a","c","k","g","r","o","u","n","d">>>>, <<>>) >>,
       << Alt(<<<<"s","k","i","l","l","s">>>>, <<>>), Alt(<<<<"t","e","c","h","n","i","c","a","l">>, <<"s","k","i","l","l","s">>>>, <<>>),
          Alt(<<<<"c","o","r","e">>, <<"c","o","m","p","e","t","e","n","c","i","e","s">>>>, <<>>) >>,
       << Alt(<<<<"p","r","o","j","e","c","t","s">>>>, <<>>), Alt(<<<<"n","o","t","a","b","l","e">>, <<"p","r","o","j","e","c","t","s">>>>, <<>>) >>,
       << Alt(<<<<"c","e","r","t","i","f","i","c","a","t","i","o","n">>>>, <<"s">>), Alt(<<<<"l","i","c","e","n","s","e">>>>, <<"s">>) >>,
       << Alt(<<<<"a","w","a","r","d">>>>, <<"s">>), Alt(<<<<"a","c","h","i","e","v","e","m","e","n","t">>>>, <<"s">>), Alt(<<<<"h","o","n","o","r">>>>, <<"s">>) >>,
       << Alt(<<<<"c","o","n","t","a","c","t">>>>, <<>>), Alt(<<<<"c","o","n","t","a","c","t">>, <<"i","n","f","o","r","m","a","t","i","o","n">>>>, <<>>) >>,
       << Alt(<<<<"l","a","n","g","u","a","g","e">>>>, <<"s">>) >>,
       << Alt(<<<<"p","u","b","l","i","c","a","t","i","o","n">>>>, <<"s">>) >>,
       << Alt(<<<<"r","e","f","e","r","e","n","c","e">>>>, <<"s">>) >> >>

\* the first position at or after i that holds no character of the set cs
RECURSIVE SkipWhile(_, _, _)
SkipWhile(s, i, cs) ==
    IF i <= Len(s) /\ s[i] \in cs THEN SkipWhile(s, i + 1, cs) ELSE i

\* the literal w matches s at position i, ignoring case (re.IGNORECASE)
MatchesAt(s, i, w) ==
    /\ i + Len(w) - 1 <= Len(s)
    /\ \A k \in 1..Len(w) : LowerChar(s[i + k - 1]) = LowerChar(w[k])

\* the words from the k-th on match s at position i, each one after the
\* first behind one or more whitespace characters (\s+, greedy): the position
\* after the match, or 0
RECURSIVE MatchWords(_, _, _, _)
MatchWords(s, i, words, k) ==
    IF k > Len(words) THEN i
    ELSE LET j == IF k = 1 THEN i ELSE SkipWhile(s, i, Whitespace)
         IN  IF (k > 1 /\ j = i) \/ ~MatchesAt(s, j, words[k]) THEN 0
             ELSE MatchWords(s, j + Len(words[k]), words, k + 1)

\* one alternative matched at position i: the position after the match, or 0
MatchAlt(s, i, alt) ==
    LET e == MatchWords(s, i, alt.words, 1)
    IN  IF e = 0 THEN 0
        ELSE IF alt.opt # <<>> /\ MatchesAt(s, e, alt.opt) THEN e + Len(alt.opt)
        ELSE e

\* the group's alternatives from the k-th on are tried in order at position
\* i, the first that matches wins: the position after the match, or 0
RECURSIVE MatchGroup(_, _, _, _)
MatchGroup(s, i, alts, k) ==
    IF k > Len(alts) THEN 0
    ELSE LET e == MatchAlt(s, i, alts[k])
         IN  IF e # 0 THEN e ELSE MatchGroup(s, i, alts, k + 1)

\* re.match of a specific pattern "^#+\s*(alts)": match.group(1) as <<text>>,
\* or <<>> when there is no match.  Every alternative starts with a letter,
\* so "#+" and "\s*" take all the '#' and all the whitespace that follow.
MatchSpecific(s, alts) ==
    LET h == SkipWhile(s, 1, {"#"})
        g == SkipWhile(s, h, Whitespace)
        e == MatchGroup(s, g, alts, 1)
    IN  IF h = 1 \/ e = 0 THEN <<>> ELSE << SubSeq(s, g, e - 1) >>

\* the generic pattern without backtracking: no match when nothing is left
\* behind the '#' and the whitespace
MatchGeneric_NoBacktrack(s) ==
    LET h == SkipWhile(s, 1, {"#"})
        g == SkipWhile(s, h, Whitespace)
    IN  IF h = 1 THEN <<>>
        ELSE IF g <= Len(s) THEN << SubSeq(s, g, Len(s)) >>
        ELSE <<>>

\* re.match of the generic pattern "^#+\s*(.+)": match.group(1) as <<text>>,
\* or <<>>, for a line (no newline in s).  When nothing is left behind the
\* '#' and the whitespace, the regex backtracks and ".+" takes the last
\* character of the line.
MatchGeneric(s) ==
    LET h == SkipWhile(s, 1, {"#"})
        g == SkipWhile(s, h, Whitespace)
    IN  IF h = 1 THEN <<>>
        ELSE IF g <= Len(s) THEN << SubSeq(s, g, Len(s)) >>
        ELSE IF Len(s) >= 2 THEN << SubSeq(s, Len(s), Len(s)) >>
        ELSE <<>>

\* the mappings of _normalize_section_name: <<variation, standard name>>
Mappings ==
    << <<<<"s","u","m","m","a","r","y">>, <<"s","u","m","m","a","r","y">>>>, <<<<"p","r","o","f","i","l","e">>, <<"s","u","m","m","a","r","y">>>>,
       <<<<"o","b","j","e","c","t","i","v","e">>, <<"s","u","m","m","a","r","y">>>>, <<<<"p","r","o","f","e","s","s","i","o","n","a","l"," ","s","u","m","m","a","r","y">>, <<"s","u","m","m","a","r","y">>>>,
       <<<<"e","x","p","e","r","i","e","n","c","e">>, <<"e","x","p","e","r","i","e","n","c","e">>>>, <<<<"w","o","r","k"," ","e","x","p","e","r","i","e","n","c","e">>, <<"e","x","p","e","r","i","e","n","c","e">>>>,
       <<<<"e","m","p","l","o","y","m","e","n","t">>, <<"e","x","p","e","r","i","e","n","c","e">>>>, <<<<"p","r","o","f","e","s","s","i","o","n","a","l"," ","e","x","p","e","r","i","e","n","c","e">>, <<"e","x","p","e","r","i","e","n","c","e">>>>,
       <<<<"e","d","u","c","a","t","i","o","n">>, <<"e","d","u","c","a","t","i","o","n">>>>, <<<<"a","c","a","d","e","m","i","c"," ","b","a","c","k","g","r","o","u","n","d">>, <<"e","d","u","c","a","t","i","o","n">>>>,
       <<<<"s","k","i","l","l","s">>, <<"s","k","i","l","l","s">>>>, <<<<"t","e","c","h","n","i","c","a","l"," ","s","k","i","l","l","s">>, <<"s","k","i","l","l","s">>>>,
       <<<<"c","o","r","e"," ","c","o","m","p","e","t","e","n","c","i","e","s">>, <<"s","k","i","l","l","s">>>>,
       <<<<"p","r","o","j","e","c","t","s">>, <<"p","r","o","j","e","c","t","s">>>>, <<<<"n","o","t","a","b","l","e"," ","p","r","o","j","e","c","t","s">>, <<"p","r","o","j","e","c","t","s">>>>,
       <<<<"c","e","r","t","i","f","i","c","a","t","i","o","n","s">>, <<"c","e","r","t","i","f","i","c","a","t","i","o","n","s">>>>, <<<<"c","e","r","t","i","f","i","c","a","t","i","o","n">>, <<"c","e","r","t","i","f","i","c","a","t","i","o","n","s">>>>,
       <<<<"l","i","c","e","n","s","e","s">>, <<"c","e","r","t","i","f","i","c","a","t","i","o","n","s">>>>, <<<<"l","i","c","e","n","s","e">>, <<"c","e","r","t","i","f","i","c","a","t","i","o","n","s">>>>,
       <<<<"a","w","a","r","d","s">>, <<"a","w","a","r","d","s">>>>, <<<<"a","w","a","r","d">>, <<"a","w","a","r","d","s">>>>,
       <<<<"a","c","h","i","e","v","e","m","e","n","t","s">>, <<"a","w","a","r","d","s">>>>, <<<<"a","c","h","i","e","v","e","m","e","n","t">>, <<"a","w","a","r","d","s">>>>,
       <<<<"h","o","n","o","r","s">>, <<"a","w","a","r","d","s">>>>, <<<<"h","o","n","o","r">>, <<"a","w","a","r","d","s">>>>,
       <<<<"c","o","n","t","a","c","t">>, <<"c","o","n","t","a","c","t">>>>, <<<<"c","o","n","t","a","c","t"," ","i","n","f","o","r","m","a","t","i","o","n">>, <<"c","o","n","t","a","c","t">>>>,
       <<<<"l","a","n","g","u","a","g","e","s">>, <<"l","a","n","g","u","a","g","e","s">>>>, <<<<"l","a","n","g","u","a","g","e">>, <<"l","a","n","g","u","a","g","e","s">>>>,
       <<<<"p","u","b","l","i","c","a","t","i","o","n","s">>, <<"p","u","b","l","i","c","a","t","i","o","n","s">>>>, <<<<"p","u","b","l","i","c","a","t","i","o","n">>, <<"p","u","b","l","i","c","a","t","i","o","n","s">>>>,
       <<<<"r","e","f","e","r","e","n","c","e","s">>, <<"r","e","f","e","r","e","n","c","e","s">>>>, <<<<"r","e","f","e","r","e","n","c","e">>, <<"r","e","f","e","r","e","n","c","e","s">>>> >>

\* _normalize_section_name without the table of variations
NormalizeSectionName_NoTable(raw) == Strip(Lower(raw))

\* _normalize_section_name without name.lower()
NormalizeSectionName_KeepCase(raw) ==
    LET n == Strip(raw)
        hits == {i \in 1..Len(Mappings) : Mappings[i][1] = n}
    IN  IF hits = {} THEN n ELSE Mappings[CHOOSE i \in hits : TRUE][2]

\* _normalize_section_name
NormalizeSectionName(raw) ==
    LET n == Strip(Lower(raw))
        hits == {i \in 1..Len(Mappings) : Mappings[i][1] = n}
    IN  IF hits = {} THEN n ELSE Mappings[CHOOSE i \in hits : TRUE][2]

\* the loop of _extract_section_name over the specific patterns from the
\* k-th on, then the generic pattern: the first pattern that matches decides
RECURSIVE FirstMatch(_, _)
FirstMatch(s, k) ==
    IF k > Len(SECTION_PATTERNS) THEN MatchGeneric(s)
    ELSE LET m == MatchSpecific(s, SECTION_PATTERNS[k])
         IN  IF m # <<>> THEN m ELSE FirstMatch(s, k + 1)

\* _extract_section_name: the normalized name, or None
ExtractSectionName(ln) ==
    LET s == Strip(ln)
        m == FirstMatch(s, 1)
    IN  IF m = <<>> THEN None ELSE NormalizeSectionName(Strip(m[1]))

\* dict lookups on the item sequence
Keys(map) == [i \in 1..Len(map) |-> map[i].name]
HasKey(map, k) == \E i \in 1..Len(map) : map[i].name = k
Get(map, k) == map[CHOOSE i \in 1..Len(map) : map[i].name = k].body
\* sections[name] = body that leaves an existing item as it is
Put_KeepFirst(map, k, v) ==
    IF HasKey(map, k) THEN map ELSE Append(map, [name |-> k, body |-> v])

\* sections[name] = body: an existing key keeps its position
Put(map, k, v) ==
    IF HasKey(map, k)
    THEN [i \in 1..Len(map) |-> IF map[i].name = k THEN [name |-> k, body |-> v] ELSE map[i]]
    ELSE Append(map, [name |-> k, body |-> v])

\* the commit without the test of current_content: an empty buffer is
\* committed as an empty body
Commit_AnyBuffer(st) ==
    IF st.current_section # None
    THEN Put(st.sections, st.current_section, Strip(Join(st.current_content, <<NL>>)))
    ELSE st.sections

\* the commit without the .strip() of the joined buffer
Commit_NoStrip(st) ==
    IF st.current_section # None /\ st.current_content # <<>>
    THEN Put(st.sections, st.current_section, Join(st.current_content, <<NL>>))
    ELSE st.sections

\* "if current_section and current_content: sections[current_section] = ..."
Commit(st) ==
    IF st.current_section # None /\ st.current_content # <<>>
    THEN Put(st.sections, st.current_section, Strip(Join(st.current_content, <<NL>>)))
    ELSE st.sections

\* the loop body without the implicit 'header' section: a line before the
\* first header is dropped
ParseLine_NoImplicitHeader(st, ln) ==
    LET section_name == ExtractSectionName(ln)
    IN  IF section_name # None
        THEN [sections |-> Commit(st), current_section |-> section_name,
              current_content |-> <<>>, header_found |-> TRUE]
        ELSE IF st.header_found
        THEN [st EXCEPT !.current_content = Append(@, ln)]
        ELSE st

\* the loop body with the key entered in the map when its header is read,
\* with an empty body, instead of when its section is committed
ParseLine_KeyAtHeader(st, ln) ==
    LET section_name == ExtractSectionName(ln)
    IN  IF section_name # None
        THEN [sections |-> Put_KeepFirst(Commit(st), section_name, <<>>),
              current_section |-> section_name,
              current_content |-> <<>>, header_found |-> TRUE]
        ELSE IF st.header_found
        THEN [st EXCEPT !.current_content = Append(@, ln)]
        ELSE IF st.current_section = None
        THEN [st EXCEPT !.current_section = <<"h","e","a","d","e","r">>, !.current_content = <<ln>>]
        ELSE [st EXCEPT !.current_content = Append(@, ln)]

\* the body of the loop of _parse_markdown_content for one line
ParseLine(st, ln) ==
    LET section_name == ExtractSectionName(ln)
    IN  IF section_name # None
        THEN [sections |-> Commit(st), current_section |-> section_name,
              current_content |-> <<>>, header_found |-> TRUE]
        ELSE IF st.header_found
        THEN [st EXCEPT !.current_content = Append(@, ln)]
        ELSE IF st.current_section = None
        THEN [st EXCEPT !.current_section = <<"h","e","a","d","e","r">>, !.current_content = <<ln>>]
        ELSE [st EXCEPT !.current_content = Append(@, ln)]

\* the loop of _parse_markdown_content over the lines from the k-th on
RECURSIVE ParseLines(_, _, _)
ParseLines(st, lines, k) ==
    IF k > Len(lines) THEN st ELSE ParseLines(ParseLine(st, lines[k]), lines, k + 1)

\* the parser without its clean-up of empty sections
DropEmpty_KeepAll(map) == map

\* "sections = {k: v for k, v in sections.items() if v.strip()}"
DropEmpty(map) == SelectSeq(map, LAMBDA e : ~IsBlank(e.body))

\* _parse_markdown_content
ParseMarkdownContent(text) ==
    LET st0 == [sections |-> <<>>, current_section |-> None,
                current_content |-> <<>>, header_found |-> FALSE]
        st == ParseLines(st0, Split(text, NL), 1)
    IN  DropEmpty(Commit(st))

\* len(content) in the place of len(content.split())
WordCount_Chars(s) == Len(s)

\* len(content.split()): the number of runs of non-whitespace characters
WordCount(s) ==
    Cardinality({i \in 1..Len(s) :
        s[i] \notin Whitespace /\ (i = 1 \/ s[i-1] \in Whitespace)})

\* validate_parsed_resume: the list of issues
ValidateParsedResume(map) ==
    LET essential_sections == << <<"e","x","p","e","r","i","e","n","c","e">>, <<"e","d","u","c","a","t","i","o","n">> >>
        missing == SelectSeq(essential_sections, LAMBDA s : ~HasKey(map, s))
        empty_sections == SelectSeq(Keys(map), LAMBDA k : IsBlank(Get(map, k)))
        short_sections ==
            SelectSeq(Keys(map),
                      LAMBDA k : WordCount(Get(map, k)) < 3
                                 /\ k \in {<<"e","x","p","e","r","i","e","n","c","e">>, <<"s","u","m","m","a","r","y">>})
    IN  [i \in 1..Len(missing) |-> <<"M","i","s","s","i","n","g"," ","e","s","s","e","n","t","i","a","l"," ","s","e","c","t","i","o","n",":"," ">> \o missing[i]]
        \o (IF empty_sections # <<>>
            THEN << <<"E","m","p","t","y"," ","s","e","c","t","i","o","n","s"," ","f","o","u","n","d",":"," ">> \o Join(empty_sections, <<","," ">>) >>
            ELSE <<>>)
        \o (IF short_sections # <<>>
            THEN << <<"S","e","c","t","i","o","n","s"," ","m","a","y"," ","n","e","e","d"," ","m","o","r","e"," ","d","e","t","a","i","l",":"," ">> \o Join(short_sections, <<","," ">>) >>
            ELSE <<>>)

-----------------------------------------------------------------------------
(* services/formatter.py                                                   *)

DEFAULT_SECTION_ORDER ==
    << <<"h","e","a","d","e","r">>, <<"c","o","n","t","a","c","t">>, <<"s","u","m","m","a","r","y">>, <<"e","x","p","e","r","i","e","n","c","e">>, <<"e","d","u","c","a","t","i","o","n">>, <<"s","k","i","l","l","s">>,
       <<"p","r","o","j","e","c","t","s">>, <<"c","e","r","t","i","f","i","c","a","t","i","o","n","s">>, <<"a","w","a","r","d","s">>, <<"l","a","n","g","u","a","g","e","s">>, <<"p","u","b","l","i","c","a","t","i","o","n","s">>,
       <<"r","e","f","e","r","e","n","c","e","s">> >>

InSeq(x, seq) == \E i \in 1..Len(seq) : seq[i] = x

\* the second loop of _get_section_order: the keys from the k-th on, each
\* appended unless already in ordered
RECURSIVE AddRemaining(_, _, _)
AddRemaining(ordered, keys, k) ==
    IF k > Len(keys) THEN ordered
    ELSE AddRemaining(IF InSeq(keys[k], ordered) THEN ordered
                      ELSE Append(ordered, keys[k]),
                      keys, k + 1)

\* _get_section_order without the default order: the keys in map order
GetSectionOrder_MapOrder(map, tpl) == Keys(map)

\* _get_section_order with the default order for the 'default' template only
GetSectionOrder_TemplateOrder(map, tpl) ==
    IF tpl = <<"d","e","f","a","u","l","t">>
    THEN AddRemaining(SelectSeq(DEFAULT_SECTION_ORDER, LAMBDA s : HasKey(map, s)),
                      Keys(map), 1)
    ELSE Keys(map)

\* _get_section_order
GetSectionOrder(map, tpl) ==
    AddRemaining(SelectSeq(DEFAULT_SECTION_ORDER, LAMBDA s : HasKey(map, s)),
                 Keys(map), 1)

\* the first line of lines, from the k-th on, that is not blank, stripped;
\* <<>> when there is none
RECURSIVE FirstNonBlank(_, _)
FirstNonBlank(lines, k) ==
    IF k > Len(lines) THEN <<>>
    ELSE IF ~IsBlank(lines[k]) THEN Strip(lines[k])
    ELSE FirstNonBlank(lines, k + 1)

\* _format_header_section that keeps the whole body behind the '# '
FormatHeaderSection_WholeBody(body) == <<"#"," ">> \o Strip(body)

\* _format_header_section
FormatHeaderSection(body) ==
    LET first == FirstNonBlank(Split(Strip(body), NL), 1)
    IN  IF first # <<>> THEN <<"#"," ">> \o first ELSE <<"#"," ","R","e","s","u","m","e">>

\* _format_contact_section
FormatContactSection(body) ==
    LET cleaned_content == Strip(body)
    IN  IF cleaned_content = <<>> THEN <<>>
        ELSE <<"#","#"," ","C","o","n","t","a","c","t","\n","\n">> \o cleaned_content

\* _format_summary_section
FormatSummarySection(body) ==
    LET cleaned_content == Strip(body)
    IN  IF cleaned_content = <<>> THEN <<>>
        ELSE <<"#","#"," ","P","r","o","f","e","s","s","i","o","n","a","l"," ","S","u","m","m","a","r","y","\n","\n">> \o cleaned_content

\* line.startswith(("-", "*", "#", "**"))
StartsWithMarker(ln) ==
    \E p \in {<<"-">>, <<"*">>, <<"#">>, <<"*","*">>} : StartsWith(ln, p)

\* the loop body of _format_experience_section without the isupper() test
ExperienceLine_NoUpperTest(raw) ==
    LET ln == Strip(raw)
    IN  IF ln = <<>> THEN <<>>
        ELSE IF ~StartsWithMarker(ln) /\ ~EndsWith(ln, <<":">>)
        THEN <<"-"," ">> \o ln
        ELSE ln

\* the body of the loop of _format_experience_section for one line
ExperienceLine(raw) ==
    LET ln == Strip(raw)
    IN  IF ln = <<>> THEN <<>>
        ELSE IF ~StartsWithMarker(ln) /\ ~EndsWith(ln, <<":">>) /\ ~IsUpper(ln)
        THEN <<"-"," ">> \o ln
        ELSE ln

\* _format_experience_section
FormatExperienceSection(body) ==
    LET cleaned_content == Strip(body)
        lines == Split(cleaned_content, NL)
        formatted_lines == [i \in 1..Len(lines) |-> ExperienceLine(lines[i])]
    IN  IF cleaned_content = <<>> THEN <<>>
        ELSE <<"#","#"," ","E","x","p","e","r","i","e","n","c","e","\n","\n">> \o Join(formatted_lines, <<NL>>)

\* the packing threshold and the length charged for a " • " separator
PackWidth == 60
SeparatorCost == 3

\* "- " + " • ".join(current_line)
BulletLine(current_line) == <<"-"," ">> \o Join(current_line, <<" ",Bullet," ">>)

\* the packing loop body that starts the new line empty: the skill that
\* does not fit is lost
PackSkill_LoseOnWrap(st, skill) ==
    IF st.current_length + Len(skill) > PackWidth /\ st.current_line # <<>>
    THEN [formatted_skills |-> Append(st.formatted_skills, BulletLine(st.current_line)),
          current_line |-> <<>>,
          current_length |-> 0]
    ELSE [st EXCEPT !.current_line = Append(@, skill),
                    !.current_length = @ + Len(skill) + SeparatorCost]

\* the body of the packing loop of _format_skills_section for one skill
PackSkill(st, skill) ==
    IF st.current_length + Len(skill) > PackWidth /\ st.current_line # <<>>
    THEN [formatted_skills |-> Append(st.formatted_skills, BulletLine(st.current_line)),
          current_line |-> <<skill>>,
          current_length |-> Len(skill)]
    ELSE [st EXCEPT !.current_line = Append(@, skill),
                    !.current_length = @ + Len(skill) + SeparatorCost]

\* the packing loop over the skills from the k-th on
RECURSIVE PackSkills(_, _, _)
PackSkills(st, skills, k) ==
    IF k > Len(skills) THEN st ELSE PackSkills(PackSkill(st, skills[k]), skills, k + 1)

\* the comma branch of _format_skills_section: the packed lines
PackedLines(cleaned_content) ==
    LET parts == Split(cleaned_content, ",")
        stripped == [i \in 1..Len(parts) |-> Strip(parts[i])]
        skills == SelectSeq(stripped, LAMBDA s : s # <<>>)
        st == PackSkills([formatted_skills |-> <<>>, current_line |-> <<>>,
                          current_length |-> 0], skills, 1)
    IN  IF st.current_line # <<>>
        THEN Append(st.formatted_skills, BulletLine(st.current_line))
        ELSE st.formatted_skills

\* _format_skills_section
FormatSkillsSection(body) ==
    LET cleaned_content == Strip(body)
        formatted_content ==
            IF HasChar(cleaned_content, ",") /\ ~HasChar(cleaned_content, NL)
            THEN Join(PackedLines(cleaned_content), <<NL>>)
            ELSE cleaned_content
    IN  IF cleaned_content = <<>> THEN <<>>
        ELSE <<"#","#"," ","S","k","i","l","l","s","\n","\n">> \o formatted_content

\* _format_generic_section
FormatGenericSection(section_name, body) ==
    LET cleaned_content == Strip(body)
        display_name == Title(ReplaceChar(section_name, "_", " "))
    IN  IF cleaned_content = <<>> THEN <<>>
        ELSE <<"#","#"," ">> \o display_name \o <<"\n","\n">> \o cleaned_content

\* _format_section without its test for a blank content
FormatSection_NoBlankGuard(section_name, body, tpl) ==
    IF section_name = <<"h","e","a","d","e","r">> THEN FormatHeaderSection(body)
    ELSE IF section_name = <<"c","o","n","t","a","c","t">> THEN FormatContactSection(body)
    ELSE IF section_name = <<"s","u","m","m","a","r","y">> THEN FormatSummarySection(body)
    ELSE IF section_name = <<"e","x","p","e","r","i","e","n","c","e">> THEN FormatExperienceSection(body)
    ELSE IF section_name = <<"s","k","i","l","l","s">> THEN FormatSkillsSection(body)
    ELSE FormatGenericSection(section_name, body)

\* _format_section
FormatSection(section_name, body, tpl) ==
    IF IsBlank(body) THEN <<>>
    ELSE IF section_name = <<"h","e","a","d","e","r">> THEN FormatHeaderSection(body)
    ELSE IF section_name = <<"c","o","n","t","a","c","t">> THEN FormatContactSection(body)
    ELSE IF section_name = <<"s","u","m","m","a","r","y">> THEN FormatSummarySection(body)
    ELSE IF section_name = <<"e","x","p","e","r","i","e","n","c","e">> THEN FormatExperienceSection(body)
    ELSE IF section_name = <<"s","k","i","l","l","s">> THEN FormatSkillsSection(body)
    ELSE FormatGenericSection(section_name, body)

\* what format_resume returns for the empty map
NoContentDocument == <<"#"," ","R","e","s","u","m","e","\n","\n","*","N","o"," ","c","o","n","t","e","n","t"," ","a","v","a","i","l","a","b","l","e","*">>

\* the loop of format_resume: the non-empty formatted sections, in order
FormattedParts(map, ordered, tpl) ==
    LET present == SelectSeq(ordered, LAMBDA s : HasKey(map, s))
        formatted == [i \in 1..Len(present) |-> FormatSection(present[i], Get(map, present[i]), tpl)]
    IN  SelectSeq(formatted, LAMBDA f : f # <<>>)

\* format_resume without the test for the empty map
FormatResume_NoEmptyGuard(map, tpl) ==
    Join(FormattedParts(map, GetSectionOrder(map, tpl), tpl), <<"\n","\n">>)

\* format_resume
FormatResume(map, tpl) ==
    IF map = <<>> THEN NoContentDocument
    ELSE Join(FormattedParts(map, GetSectionOrder(map, tpl), tpl), <<"\n","\n">>)

-----------------------------------------------------------------------------
(* models/resume.py                                                        *)

\* Resume.update_section: the two maps after the call
UpdateSection(raw, revised, section_name, text, rev) ==
    IF rev
    THEN [raw_content |-> raw, revised_content |-> Put(revised, section_name, text)]
    ELSE [raw_content |-> Put(raw, section_name, text), revised_content |-> revised]

\* Resume.has_revised_content
HasRevisedContent(revised, section_name) == HasKey(revised, section_name)

\* the loop of export_markdown: final_content, one item per key of
\* raw_content, the revised text where there is one
FinalContent(raw, revised) ==
    [i \in 1..Len(raw) |->
        [name |-> raw[i].name,
         body |-> IF HasKey(revised, raw[i].name) THEN Get(revised, raw[i].name)
                  ELSE raw[i].body]]

\* Resume.export_markdown
ExportMarkdown(raw, revised, tpl) == FormatResume(FinalContent(raw, revised), tpl)

-----------------------------------------------------------------------------
(* Scenarios.  Each specification runs one caller of the two services.     *)

\* the sequences of 1..n elements of the set S
SeqsUpTo(S, n) == UNION {[1..k -> S] : k \in 1..n}

\* the text whose lines are ls
TextOf(ls) == Join(ls, <<NL>>)

\* values of the variables a scenario does not use
NoFile == [exists |-> FALSE, readable |-> FALSE, text |-> <<>>]

(* -- text -> parse -> format -> parse -> format ------------------------- *)

MaxLines == 4

\* "Jane Doe", "", "## Skills", "## Experience", "## Employment",
\* "Python, Go", "# Header"
LinePool ==
    {<<"J","a","n","e"," ","D","o","e">>, <<>>, <<"#","#"," ","S","k","i","l","l","s">>, <<"#","#"," ","E","x","p","e","r","i","e","n","c","e">>, <<"#","#"," ","E","m","p","l","o","y","m","e","n","t">>,
     <<"P","y","t","h","o","n",","," ","G","o">>, <<"#"," ","H","e","a","d","e","r">>}

Texts == {TextOf(ls) : ls \in SeqsUpTo(LinePool, MaxLines)}

InitParse ==
    /\ pc = "start"
    /\ issues = <<>> /\ raw_content = <<>> /\ revised_content = <<>>
    /\ todo = <<>> /\ log = <<>>
    /\ content \in Texts
    /\ file = NoFile /\ fsCalls = <<>> /\ result = "none"
    /\ sections = <<>> /\ template = <<"d","e","f","a","u","l","t">> /\ order = <<>> /\ doc = <<>>
    /\ prevDoc = <<>> /\ line = <<>> /\ name = None

\* the caller hands the text to _parse_markdown_content, which returns a map
ParseContent ==
    /\ pc = "start"
    /\ sections' = ParseMarkdownContent(content)
    /\ result' = "ok"
    /\ pc' = "parsed"
    /\ UNCHANGED <<todo, log, issues, raw_content, revised_content, file, fsCalls, content, template, order, doc, prevDoc, line, name>>

\* the caller hands the parsed map to format_resume
FormatParsed ==
    /\ pc = "parsed"
    /\ order' = IF sections = <<>> THEN <<>> ELSE GetSectionOrder(sections, template)
    /\ doc' = FormatResume(sections, template)
    /\ pc' = "formatted"
    /\ UNCHANGED <<todo, log, issues, raw_content, revised_content, file, fsCalls, result, content, sections, template, prevDoc, line, name>>

\* the caller parses the document it was given back
Reparse ==
    /\ pc = "formatted"
    /\ prevDoc' = doc
    /\ sections' = ParseMarkdownContent(doc)
    /\ pc' = "reparsed"
    /\ UNCHANGED <<todo, log, issues, raw_content, revised_content, file, fsCalls, result, content, template, order, doc, line, name>>

\* and formats the map again
Reformat ==
    /\ pc = "reparsed"
    /\ order' = IF sections = <<>> THEN <<>> ELSE GetSectionOrder(sections, template)
    /\ doc' = FormatResume(sections, template)
    /\ pc' = "reformatted"
    /\ UNCHANGED <<todo, log, issues, raw_content, revised_content, file, fsCalls, result, content, sections, template, prevDoc, line, name>>

NextParse == ParseContent \/ FormatParsed \/ Reparse \/ Reformat

Spec == InitParse /\ [][NextParse]_vars

(* -- parse_markdown_file ------------------------------------------------ *)

MaxFileLines == 2

\* "", " ", a tab, "Jane Doe", "## Skills", "Python", "# Header"
FileLinePool == {<<>>, <<" ">>, <<"\t">>, <<"J","a","n","e"," ","D","o","e">>, <<"#","#"," ","S","k","i","l","l","s">>, <<"P","y","t","h","o","n">>, <<"#"," ","H","e","a","d","e","r">>}

FileTexts == {TextOf(ls) : ls \in SeqsUpTo(FileLinePool, MaxFileLines)}

\* no file at the path; a file that read_text cannot read or decode; a text file
Files ==
    {NoFile, [exists |-> TRUE, readable |-> FALSE, text |-> <<>>]}
    \cup {[exists |-> TRUE, readable |-> TRUE, text |-> t] : t \in FileTexts}

InitFile ==
    /\ pc = "start"
    /\ issues = <<>> /\ raw_content = <<>> /\ revised_content = <<>>
    /\ todo = <<>> /\ log = <<>>
    /\ file \in Files
    /\ content = file.text
    /\ fsCalls = <<>> /\ result = "none"
    /\ sections = <<>> /\ template = <<"d","e","f","a","u","l","t">> /\ order = <<>> /\ doc = <<>>
    /\ prevDoc = <<>> /\ line = <<>> /\ name = None

\* parse_markdown_file without the test of path.exists(): the read of a
\* missing file fails
ParseMarkdownFile_NoExistsCheck(f) ==
    IF ~f.exists \/ ~f.readable \/ IsBlank(f.text)
    THEN [fsCalls |-> <<"read_text">>, result |-> "Malformed", sections |-> <<>>]
    ELSE [fsCalls |-> <<"read_text">>, result |-> "ok",
          sections |-> ParseMarkdownContent(f.text)]

\* parse_markdown_file without the test for an empty file
ParseMarkdownFile_NoBlankCheck(f) ==
    IF ~f.exists
    THEN [fsCalls |-> <<"exists">>, result |-> "NotFound", sections |-> <<>>]
    ELSE IF ~f.readable
    THEN [fsCalls |-> <<"exists", "read_text">>, result |-> "Malformed", sections |-> <<>>]
    ELSE [fsCalls |-> <<"exists", "read_text">>, result |-> "ok",
          sections |-> ParseMarkdownContent(f.text)]

\* parse_markdown_file on the file f: the calls made on the path, the
\* outcome, and the map returned when the outcome is "ok"
ParseMarkdownFile(f) ==
    IF ~f.exists
    THEN [fsCalls |-> <<"exists">>, result |-> "NotFound", sections |-> <<>>]
    ELSE IF ~f.readable
    THEN [fsCalls |-> <<"exists", "read_text">>, result |-> "Malformed", sections |-> <<>>]
    ELSE IF IsBlank(f.text)
    THEN [fsCalls |-> <<"exists", "read_text">>, result |-> "Malformed", sections |-> <<>>]
    ELSE [fsCalls |-> <<"exists", "read_text">>, result |-> "ok",
          sections |-> ParseMarkdownContent(f.text)]

\* the caller hands the path to parse_markdown_file
ParseFile ==
    /\ pc = "start"
    /\ LET r == ParseMarkdownFile(file)
       IN  /\ fsCalls' = r.fsCalls
           /\ result' = r.result
           /\ sections' = r.sections
    /\ pc' = "fileParsed"
    /\ UNCHANGED <<todo, log, issues, raw_content, revised_content, file, content, template, order, doc, prevDoc, line, name>>

NextFile == ParseFile \/ ParseContent

SpecFile == InitFile /\ [][NextFile]_vars

(* -- format_resume on a map of the caller's ----------------------------- *)

MaxSections == 3

NamePool == {<<"h","e","a","d","e","r">>, <<"e","x","p","e","r","i","e","n","c","e">>, <<"s","k","i","l","l","s">>, <<"h","o","b","b","i","e","s">>, <<"v","o","l","u","n","t","e","e","r","_","w","o","r","k">>}

\* "", "Jane Doe\n\nEngineer", " , ", "Python, Go"
BodyPool == {<<>>, <<"J","a","n","e"," ","D","o","e","\n","\n","E","n","g","i","n","e","e","r">>, <<" ",","," ">>, <<"P","y","t","h","o","n",","," ","G","o">>}

\* 'default', an unknown identifier, the empty string
Templates == {<<"d","e","f","a","u","l","t">>, <<"m","o","d","e","r","n">>, <<>>}

\* the maps of 0..MaxSections items with pairwise different names
SectionMaps ==
    {<<>>} \cup
    {m \in SeqsUpTo([name : NamePool, body : BodyPool], MaxSections) :
        \A i, j \in 1..Len(m) : i # j => m[i].name # m[j].name}

InitFormat ==
    /\ pc = "start"
    /\ issues = <<>> /\ raw_content = <<>> /\ revised_content = <<>>
    /\ todo = <<>> /\ log = <<>>
    /\ sections \in SectionMaps
    /\ template \in Templates
    /\ file = NoFile /\ fsCalls = <<>> /\ result = "none" /\ content = <<>>
    /\ order = <<>> /\ doc = <<>> /\ prevDoc = <<>> /\ line = <<>> /\ name = None

\* the caller hands its map to format_resume
FormatCall ==
    /\ pc = "start"
    /\ order' = IF sections = <<>> THEN <<>> ELSE GetSectionOrder(sections, template)
    /\ doc' = FormatResume(sections, template)
    /\ pc' = "formatted"
    /\ UNCHANGED <<todo, log, issues, raw_content, revised_content, file, fsCalls, result, content, sections, template, prevDoc, line, name>>

NextFormat == FormatCall

SpecFormat == InitFormat /\ [][NextFormat]_vars

(* -- _extract_section_name on a header line ----------------------------- *)

MaxHashes == 3
MaxGap == 2

Repeat(c, n) == [i \in 1..n |-> c]

\* the title with the case of every letter of its title-case spelling swapped
SwapCase(t) ==
    [i \in 1..Len(t) |-> IF Title(t)[i] \in UpperLetters THEN LowerChar(t[i])
                          ELSE UpperChar(t[i])]

\* the spellings of a title: as in the table, upper case, title case, and
\* title case swapped ("sKILLS")
Spellings(t) == {t, Upper(t), Title(t), SwapCase(t)}

\* every variation of the table behind 1..MaxHashes '#' and 0..MaxGap blanks
SynonymHeaders ==
    {Repeat("#", h) \o Repeat(" ", g) \o t :
        h \in 1..MaxHashes, g \in 0..MaxGap,
        t \in UNION {Spellings(Mappings[i][1]) : i \in 1..Len(Mappings)}}

\* "Not a header", "#", "##", "## Volunteer Work"
OtherLines == {<<"N","o","t"," ","a"," ","h","e","a","d","e","r">>, <<"#">>, <<"#","#">>, <<"#","#"," ","V","o","l","u","n","t","e","e","r"," ","W","o","r","k">>}

\* header lines with other titles, lines of '#' only, lines that are no
\* header
TitledLines ==
    {<<" "," ","#","#","#"," ","V","o","l","u","n","t","e","e","r"," ","W","o","r","k"," "," ">>, <<"#","#"," ","#","t","a","g">>, <<"#","H","o","b","b","i","e","s">>, <<"#","#"," ","P","r","o","f","e","s","s","i","o","n","a","l"," ","S","u","m","m","a","r","y">>,
     <<"#","#"," ","E","x","p","e","r","i","e","n","c","e"," ","a","t"," ","A","c","m","e">>, <<"#","#"," ","S","k","i","l","l","s"," ","a","n","d"," ","T","o","o","l","s">>, <<"#","#"," ","E","x","p","e","r","i","e","n","c","e","d">>,
     <<"#","#"," ","W","o","r","k"," "," "," ","E","x","p","e","r","i","e","n","c","e"," ","A","b","r","o","a","d">>, <<"#","#","#">>, <<"#"," ">>, <<"S","k","i","l","l","s">>, <<"t","e","x","t"," ","#"," ","h","a","s","h">>, <<>>, <<" ">>}

InitExtract ==
    /\ pc = "start"
    /\ issues = <<>> /\ raw_content = <<>> /\ revised_content = <<>>
    /\ todo = <<>> /\ log = <<>>
    /\ line \in SynonymHeaders \cup OtherLines \cup TitledLines
    /\ name = None
    /\ file = NoFile /\ fsCalls = <<>> /\ result = "none" /\ content = <<>>
    /\ sections = <<>> /\ template = <<"d","e","f","a","u","l","t">> /\ order = <<>> /\ doc = <<>>
    /\ prevDoc = <<>>

\* the caller hands the line to _extract_section_name
ExtractCall ==
    /\ pc = "start"
    /\ name' = ExtractSectionName(line)
    /\ pc' = "extracted"
    /\ UNCHANGED <<todo, log, issues, raw_content, revised_content, file, fsCalls, result, content, sections, template, order, doc,
                   prevDoc, line>>

NextExtract == ExtractCall

SpecExtract == InitExtract /\ [][NextExtract]_vars

(* -- format_resume on a map of one section ------------------------------ *)

MaxExpLines == 3
MaxHeaderLines == 3
MaxSkills == 3

\* lines of an experience body: plain, marked, ending in ':', upper case,
\* without letters, blank, padded
ExpLinePool ==
    {<<"L","e","d"," ","t","e","a","m"," ","o","f"," ","5">>, <<"B","u","i","l","t"," ","s","y","s","t","e","m">>, <<"-"," ","d","o","n","e">>, <<"*"," ","s","t","a","r">>, <<"#","t","a","g">>, <<"*","*","b","o","l","d","*","*">>,
     <<"R","o","l","e",":">>, <<"A","C","M","E"," ","I","N","C">>, <<"2","0","2","0">>, <<>>, <<" "," ","p","a","d","d","e","d"," "," ">>, <<" ","-"," ","i","n","d","e","n","t","e","d">>}

\* lines of a header body
HeaderLinePool == {<<>>, <<" "," ">>, <<"J","a","n","e"," ","D","o","e">>, <<" ","J","a","n","e"," ","D","o","e"," "," ">>, <<"E","n","g","i","n","e","e","r">>}

\* skills of 28, 29, 30 and 40 characters
SkillPool == {Repeat("a", n) : n \in {28, 29, 30, 40}}

\* skills bodies with padded and empty items, with a newline, without comma
SkillBodies ==
    {<<"P","y","t","h","o","n",","," "," ","G","o"," ",",",",","S","Q","L">>, <<"P","y","t","h","o","n","\n","G","o",","," ","S","Q","L">>, <<"P","y","t","h","o","n">>, <<" "," ","P","y","t","h","o","n"," ","G","o"," "," ">>, <<" ",","," ">>,
     <<"-"," ","P","y","t","h","o","n","\n","-"," ","G","o">>}

OneSectionMaps ==
    {<< [name |-> <<"e","x","p","e","r","i","e","n","c","e">>, body |-> TextOf(ls)] >> :
        ls \in SeqsUpTo(ExpLinePool, MaxExpLines)}
    \cup {<< [name |-> <<"h","e","a","d","e","r">>, body |-> TextOf(ls)] >> :
        ls \in SeqsUpTo(HeaderLinePool, MaxHeaderLines)}
    \cup {<< [name |-> <<"s","k","i","l","l","s">>, body |-> Join(sk, <<","," ">>)] >> :
        sk \in SeqsUpTo(SkillPool, MaxSkills)}
    \cup {<< [name |-> <<"s","k","i","l","l","s">>, body |-> b] >> : b \in SkillBodies}

InitSection ==
    /\ pc = "start"
    /\ issues = <<>> /\ raw_content = <<>> /\ revised_content = <<>>
    /\ todo = <<>> /\ log = <<>>
    /\ sections \in OneSectionMaps
    /\ template = <<"d","e","f","a","u","l","t">>
    /\ file = NoFile /\ fsCalls = <<>> /\ result = "none" /\ content = <<>>
    /\ order = <<>> /\ doc = <<>> /\ prevDoc = <<>> /\ line = <<>> /\ name = None

NextSection == FormatCall

SpecSection == InitSection /\ [][NextSection]_vars

(* -- validate_parsed_resume on a map of the caller's -------------------- *)

MaxValidated == 3

ValidatedNames == {<<"e","x","p","e","r","i","e","n","c","e">>, <<"e","d","u","c","a","t","i","o","n">>, <<"s","u","m","m","a","r","y">>, <<"s","k","i","l","l","s">>}

\* "", " \n", "Led team", "Led a  team"
ValidatedBodies == {<<>>, <<" ","\n">>, <<"L","e","d"," ","t","e","a","m">>, <<"L","e","d"," ","a"," "," ","t","e","a","m">>}

ValidatedMaps ==
    {<<>>} \cup
    {m \in SeqsUpTo([name : ValidatedNames, body : ValidatedBodies], MaxValidated) :
        \A i, j \in 1..Len(m) : i # j => m[i].name # m[j].name}

InitValidate ==
    /\ pc = "start"
    /\ issues = <<>> /\ raw_content = <<>> /\ revised_content = <<>>
    /\ todo = <<>> /\ log = <<>>
    /\ sections \in ValidatedMaps
    /\ template = <<"d","e","f","a","u","l","t">>
    /\ file = NoFile /\ fsCalls = <<>> /\ result = "none" /\ content = <<>>
    /\ order = <<>> /\ doc = <<>> /\ prevDoc = <<>> /\ line = <<>> /\ name = None

\* the caller hands its map to validate_parsed_resume, which returns a list
ValidateCall ==
    /\ pc = "start"
    /\ issues' = ValidateParsedResume(sections)
    /\ result' = "ok"
    /\ pc' = "validated"
    /\ UNCHANGED <<todo, log, raw_content, revised_content, file, fsCalls, content, sections,
                   template, order, doc, prevDoc, line, name>>

NextValidate == ValidateCall

SpecValidate == InitValidate /\ [][NextValidate]_vars

(* -- _parse_markdown_content on texts of repeated headers --------------- *)

MaxOrderLines == 5

\* "## Skills", "## Experience", "Jane Doe", "", "  Python, Go "
OrderLinePool == {<<"#","#"," ","S","k","i","l","l","s">>, <<"#","#"," ","E","x","p","e","r","i","e","n","c","e">>, <<"J","a","n","e"," ","D","o","e">>, <<>>, <<" "," ","P","y","t","h","o","n",","," ","G","o"," ">>}

OrderTexts == {TextOf(ls) : ls \in SeqsUpTo(OrderLinePool, MaxOrderLines)}

InitOrder ==
    /\ pc = "start"
    /\ issues = <<>> /\ raw_content = <<>> /\ revised_content = <<>>
    /\ todo = <<>> /\ log = <<>>
    /\ content \in OrderTexts
    /\ file = NoFile /\ fsCalls = <<>> /\ result = "none"
    /\ sections = <<>> /\ template = <<"d","e","f","a","u","l","t">> /\ order = <<>> /\ doc = <<>>
    /\ prevDoc = <<>> /\ line = <<>> /\ name = None

NextOrder == ParseContent

SpecOrder == InitOrder /\ [][NextOrder]_vars

(* -- a Resume that is edited and exported ------------------------------- *)

ResumeNames == {<<"s","u","m","m","a","r","y">>, <<"s","k","i","l","l","s">>, <<"h","o","b","b","i","e","s">>}

\* "Old text", "New text"
ResumeTexts == {<<"O","l","d"," ","t","e","x","t">>, <<"N","e","w"," ","t","e","x","t">>}

\* Resume(): the maps are empty, the template is 'default'
InitResume ==
    /\ pc = "editing"
    /\ issues = <<>> /\ raw_content = <<>> /\ revised_content = <<>>
    /\ todo = <<>> /\ log = <<>>
    /\ template = <<"d","e","f","a","u","l","t">>
    /\ file = NoFile /\ fsCalls = <<>> /\ result = "none" /\ content = <<>>
    /\ sections = <<>> /\ order = <<>> /\ doc = <<>> /\ prevDoc = <<>>
    /\ line = <<>> /\ name = None

\* a caller updates the raw or the revised content of a section
UpdateSectionCall ==
    /\ pc = "editing"
    /\ \E n \in ResumeNames, t \in ResumeTexts, rev \in BOOLEAN :
           LET r == UpdateSection(raw_content, revised_content, n, t, rev)
           IN  /\ raw_content' = r.raw_content
               /\ revised_content' = r.revised_content
    /\ UNCHANGED <<todo, log, pc, issues, file, fsCalls, result, content, sections, template,
                   order, doc, prevDoc, line, name>>

\* a caller exports the resume
ExportCall ==
    /\ pc = "editing"
    /\ doc' = ExportMarkdown(raw_content, revised_content, template)
    /\ pc' = "exported"
    /\ UNCHANGED <<todo, log, issues, raw_content, revised_content, file, fsCalls, result,
                   content, sections, template, order, prevDoc, line, name>>

NextResume == UpdateSectionCall \/ ExportCall

SpecResume == InitResume /\ [][NextResume]_vars

(* -- main.py: ResumeImprover.run ---------------------------------------- *)

\* basic_sections of _create_basic_sections
BasicSections == << <<"s","u","m","m","a","r","y">>, <<"e","x","p","e","r","i","e","n","c","e">>, <<"e","d","u","c","a","t","i","o","n">>, <<"s","k","i","l","l","s">> >>

\* the files the user can name: collect_resume_file returns a path only when
\* the file exists.  Unreadable; blank; a header without a body; one section;
\* leading text and two sections
WorkflowFiles ==
    {[exists |-> TRUE, readable |-> FALSE, text |-> <<>>]}
    \cup {[exists |-> TRUE, readable |-> TRUE, text |-> t] :
            t \in {<<" ">>, <<"#","#"," ","S","k","i","l","l","s">>, <<"#","#"," ","S","k","i","l","l","s","\n","P","y","t","h","o","n",","," ","G","o">>,
                   <<"J","a","n","e"," ","D","o","e","\n","#","#"," ","S","u","m","m","a","r","y","\n","E","n","g","i","n","e","e","r">>}}

\* what _create_content_from_answers can make of the user's answers for a
\* section; for 'skills', answers of commas only give the empty text
CreatedTexts(section_name) ==
    IF section_name = <<"s","k","i","l","l","s">> THEN {<<"P","y","t","h","o","n",","," ","G","o">>, <<>>} ELSE {<<"M","a","d","e"," ","f","r","o","m"," ","a","n","s","w","e","r","s">>}

\* the outcome of prompt_for_missing_info for a section: no answer at all,
\* or answers, with the content made from them
UserAnswers(section_name) ==
    {[given |-> FALSE, text |-> <<>>]}
    \cup {[given |-> TRUE, text |-> t] : t \in CreatedTexts(section_name)}

\* improve_content_with_ai: the content as it is, or another text
ImproveContentWithAI(current_content, same) ==
    IF same THEN current_content ELSE <<"I","m","p","r","o","v","e","d"," ","t","e","x","t">>

\* _load_or_create_resume: raw_content of the resume it returns, for the
\* path f the user gave (None: start from scratch)
LoadOrCreateResume(f) ==
    IF f = None THEN <<>>
    ELSE LET r == ParseMarkdownFile(f)
         IN  IF r.result = "ok" THEN r.sections ELSE <<>>

\* the loop of _create_basic_sections over the basic sections from the k-th
\* on, with the user's answers for each
RECURSIVE CreateBasicSections(_, _, _)
CreateBasicSections(raw, answers, k) ==
    IF k > Len(BasicSections) THEN raw
    ELSE CreateBasicSections(
             IF answers[k].given THEN Put(raw, BasicSections[k], answers[k].text)
             ELSE raw,
             answers, k + 1)

\* _process_section that writes the revised content without the user's
\* confirmation
ProcessSection_NoConfirm(raw, revised, section_name, answers, same, confirm) ==
    LET before == IF HasKey(raw, section_name) THEN Get(raw, section_name) ELSE <<>>
        created == IsBlank(before) /\ answers.given
        current_content == IF created THEN answers.text ELSE before
        improved_content == ImproveContentWithAI(current_content, same)
    IN  [raw_content |-> IF created THEN Put(raw, section_name, current_content) ELSE raw,
         revised_content |->
             IF ~IsBlank(current_content) /\ improved_content # current_content
             THEN Put(revised, section_name, improved_content)
             ELSE revised]

\* _process_section: the two maps of the resume after the call, for the
\* user's answers to the questions, the AI's proposal and the user's answer
\* to confirm_changes
ProcessSection(raw, revised, section_name, answers, same, confirm) ==
    LET before == IF HasKey(raw, section_name) THEN Get(raw, section_name) ELSE <<>>
        created == IsBlank(before) /\ answers.given
        current_content == IF created THEN answers.text ELSE before
        improved_content == ImproveContentWithAI(current_content, same)
    IN  [raw_content |-> IF created THEN Put(raw, section_name, current_content) ELSE raw,
         revised_content |->
             IF ~IsBlank(current_content) /\ improved_content # current_content /\ confirm
             THEN Put(revised, section_name, improved_content)
             ELSE revised]

\* ResumeImprover(): no resume yet
InitWorkflow ==
    /\ pc = "start"
    /\ issues = <<>> /\ raw_content = <<>> /\ revised_content = <<>>
    /\ todo = <<>> /\ log = <<>>
    /\ template = <<"d","e","f","a","u","l","t">>
    /\ file = NoFile /\ fsCalls = <<>> /\ result = "none" /\ content = <<>>
    /\ sections = <<>> /\ order = <<>> /\ doc = <<>> /\ prevDoc = <<>>
    /\ line = <<>> /\ name = None

\* run: welcome, profile, _load_or_create_resume
LoadResume ==
    /\ pc = "start"
    /\ \E f \in {None} \cup WorkflowFiles :
           /\ file' = IF f = None THEN NoFile ELSE f
           /\ raw_content' = LoadOrCreateResume(f)
    /\ pc' = "loaded"
    /\ UNCHANGED <<todo, log, issues, revised_content, fsCalls, result, content,
                   sections, template, order, doc, prevDoc, line, name>>

\* run: _analyze_resume (display only) and the head of
\* _improve_resume_content: the sections to process, created from the user's
\* answers when the resume is empty
StartImproving ==
    /\ pc = "loaded"
    /\ IF raw_content = <<>>
       THEN /\ \E answers \in [1..Len(BasicSections) -> UNION {UserAnswers(BasicSections[k]) : k \in 1..Len(BasicSections)}] :
                   /\ \A k \in 1..Len(BasicSections) : answers[k] \in UserAnswers(BasicSections[k])
                   /\ raw_content' = CreateBasicSections(raw_content, answers, 1)
            /\ todo' = BasicSections
       ELSE /\ todo' = Keys(raw_content)
            /\ UNCHANGED raw_content
    /\ pc' = "improving"
    /\ UNCHANGED <<log, issues, revised_content, file, fsCalls, result, content,
                   sections, template, order, doc, prevDoc, line, name>>

\* the loop of _improve_resume_content: _process_section for the next
\* section.  The user is asked the questions only for a blank section, the AI
\* is called only for a content that is not blank, and the user is asked to
\* confirm only a proposal that differs; the log holds what was answered.
ProcessNext ==
    /\ pc = "improving" /\ todo # <<>>
    /\ LET section_name == Head(todo)
           before == IF HasKey(raw_content, section_name)
                     THEN Get(raw_content, section_name) ELSE <<>>
       IN  \E answers \in (IF IsBlank(before) THEN UserAnswers(section_name)
                           ELSE {[given |-> FALSE, text |-> <<>>]}) :
           \E same \in (IF IsBlank(before) /\ IsBlank(answers.text) THEN {TRUE}
                        ELSE BOOLEAN) :
           \E confirm \in (IF same THEN {FALSE} ELSE BOOLEAN) :
               LET r == ProcessSection(raw_content, revised_content, section_name,
                                       answers, same, confirm)
               IN  /\ raw_content' = r.raw_content
                   /\ revised_content' = r.revised_content
                   /\ log' = Append(log, [section |-> section_name, before |-> before,
                                          answers |-> answers, same |-> same,
                                          confirm |-> confirm])
    /\ todo' = Tail(todo)
    /\ UNCHANGED <<pc, issues, file, fsCalls, result, content, sections, template,
                   order, doc, prevDoc, line, name>>

\* run: _export_resume
ExportResume ==
    /\ pc = "improving" /\ todo = <<>>
    /\ doc' = ExportMarkdown(raw_content, revised_content, template)
    /\ pc' = "exported"
    /\ UNCHANGED <<todo, log, issues, raw_content, revised_content, file, fsCalls,
                   result, content, sections, template, order, prevDoc, line, name>>

\* run: display_final_summary; the division by the number of sections raises
\* ZeroDivisionError for a resume without sections, which run reports as an
\* unexpected error
FinalSummary ==
    /\ pc = "exported"
    /\ result' = IF Len(Keys(raw_content)) = 0 THEN "UnexpectedError" ELSE "completed"
    /\ pc' = "done"
    /\ UNCHANGED <<todo, log, issues, raw_content, revised_content, file, fsCalls,
                   content, sections, template, order, doc, prevDoc, line, name>>

\* run: the user interrupts at a prompt (KeyboardInterrupt)
Interrupt ==
    /\ pc \in {"start", "loaded", "improving"}
    /\ result' = "Interrupted"
    /\ pc' = "done"
    /\ UNCHANGED <<todo, log, issues, raw_content, revised_content, file, fsCalls,
                   content, sections, template, order, doc, prevDoc, line, name>>

NextWorkflow ==
    LoadResume \/ StartImproving \/ ProcessNext \/ ExportResume \/ FinalSummary
    \/ Interrupt

SpecWorkflow == InitWorkflow /\ [][NextWorkflow]_vars

-----------------------------------------------------------------------------
(* The claims.  What a claim says about a text is stated on the text       *)
(* itself: its lines, the ATX headers among them and their titles.         *)

LinesOf(text) == Split(text, NL)

\* the line starts, behind blanks, with '#'
IsAtx(ln) == StartsWith(Strip(ln), <<"#">>)

\* the text of the line behind its leading '#' and the blanks around it
HeaderTitle(ln) ==
    LET s == Strip(ln) IN Strip(SubSeq(s, SkipWhile(s, 1, {"#"}), Len(s)))

\* the rows of the normalization table whose variation is the line's title,
\* in any letter case
TableRows(ln) == {i \in 1..Len(Mappings) : Mappings[i][1] = Lower(HeaderTitle(ln))}

\* an ATX header whose title is a variation of the normalization table
IsSynonymHeader(ln) == IsAtx(ln) /\ TableRows(ln) # {}

\* the standard name the table gives for the title of a synonym header
Canonical(ln) == Mappings[CHOOSE i \in TableRows(ln) : TRUE][2]

\* the lines between the i-th line, a header, and the next header are blank
BodyBlank(ls, i) ==
    \A j \in (i + 1)..Len(ls) :
        (\A k \in (i + 1)..j : ~IsAtx(ls[k])) => IsBlank(ls[j])

SynonymHeaderLines(ls) == {i \in 1..Len(ls) : IsSynonymHeader(ls[i])}

\* C1: round-trip stability.  For every non-blank text t, with
\* d = format(parse(t)), format(parse(d)) = d.
C1_RoundTrip ==
    (pc = "reformatted" /\ ~IsBlank(content)) => doc = prevDoc

\* C2 as stated: a text with N distinct synonym headers parses to exactly N
\* entries when every header has a non-blank body, to fewer only when some
\* body is blank, and every key is the canonical name of one of the headers.
C2_Original ==
    pc = "parsed" =>
        LET ls == LinesOf(content)
            H == SynonymHeaderLines(ls)
            N == Cardinality({Lower(HeaderTitle(ls[i])) : i \in H})
        IN  H # {} =>
            /\ (\A i \in H : ~BodyBlank(ls, i)) => Len(sections) = N
            /\ Len(sections) <= N
            /\ \A e \in 1..Len(sections) :
                   \E i \in H : sections[e].name = Canonical(ls[i])

\* the headers of the text all have a variation of the table as title, and
\* no two of them have the same canonical name
C2_Applies ==
    LET ls == LinesOf(content)
        H == SynonymHeaderLines(ls)
    IN  /\ H # {}
        /\ \A i \in 1..Len(ls) : IsAtx(ls[i]) => i \in H
        /\ \A i, j \in H : i # j => Canonical(ls[i]) # Canonical(ls[j])

\* C2 (amended): when every header of the text is a synonym header and the N
\* headers have pairwise different canonical names, the entries other than
\* the 'header' entry of the text before the first header are exactly N when
\* every header has a non-blank body and fewer only when some body is blank,
\* and each of their keys is the canonical name of one of the headers.
C2_Entries ==
    (pc = "parsed" /\ C2_Applies) =>
        LET ls == LinesOf(content)
            H == SynonymHeaderLines(ls)
            N == Cardinality(H)
            K == SelectSeq(sections, LAMBDA e : e.name # <<"h","e","a","d","e","r">>)
        IN  /\ (\A i \in H : ~BodyBlank(ls, i)) => Len(K) = N
            /\ Len(K) <= N
            /\ \A e \in 1..Len(K) : \E i \in H : K[e].name = Canonical(ls[i])

\* two synonym headers of different canonical names, each with a body, gave
\* two entries
C2_Witness ==
    /\ pc = "parsed" /\ C2_Applies
    /\ Cardinality(SynonymHeaderLines(LinesOf(content))) = 2
    /\ Len(sections) = 2
    /\ ~HasKey(sections, <<"h","e","a","d","e","r">>)

\* C3: every variation of the normalization table, in any letter case and
\* behind any number of '#', is extracted to its canonical name; so are the
\* five header lines the tests and the specification name.
C3_Synonyms ==
    pc = "extracted" =>
        /\ IsSynonymHeader(line) => name = Canonical(line)
        /\ line \in {<<"#","#"," ","W","o","r","k"," ","E","x","p","e","r","i","e","n","c","e">>, <<"#","#"," ","E","m","p","l","o","y","m","e","n","t">>, <<"#","#"," ","E","x","p","e","r","i","e","n","c","e">>}
               => name = <<"e","x","p","e","r","i","e","n","c","e">>
        /\ line = <<"#"," ","P","r","o","f","e","s","s","i","o","n","a","l"," ","S","u","m","m","a","r","y">> => name = <<"s","u","m","m","a","r","y">>
        /\ line = <<"#","#","#"," ","S","k","i","l","l","s">> => name = <<"s","k","i","l","l","s">>

\* an upper-case two-word variation behind three '#' and two blanks
C3_Witness ==
    /\ pc = "extracted"
    /\ line = <<"#","#","#"," "," ","C","O","R","E"," ","C","O","M","P","E","T","E","N","C","I","E","S">>
    /\ name = <<"s","k","i","l","l","s">>

\* the first line of the text is plain text: not blank, not a header
FirstLinePlain(text) ==
    LET l1 == LinesOf(text)[1] IN ~IsBlank(l1) /\ ~IsAtx(l1)

\* the map has a 'header' section that holds the first line of the text, and
\* the document starts with the block "# <that line>"
C4_HeaderRendered ==
    LET l1 == Strip(LinesOf(content)[1])
        h1 == <<"#"," ">> \o l1
    IN  /\ HasKey(sections, <<"h","e","a","d","e","r">>)
        /\ Strip(LinesOf(Get(sections, <<"h","e","a","d","e","r">>))[1]) = l1
        /\ doc = h1 \/ StartsWith(doc, h1 \o <<"\n","\n">>)

\* C4 as stated: a text whose first line is plain text parses to a map with a
\* 'header' section containing that line, rendered as "# <line>" first.
C4_Original ==
    (pc = "formatted" /\ FirstLinePlain(content)) => C4_HeaderRendered

\* no header of the text is titled 'header', in any letter case
NoHeaderTitledHeader(text) ==
    \A i \in 1..Len(LinesOf(text)) :
        LET l == LinesOf(text)[i]
        IN  ~(IsAtx(l) /\ Lower(HeaderTitle(l)) = <<"h","e","a","d","e","r">>)

\* C4 (amended): the same, for a text none of whose headers is titled
\* 'header' (such a header overwrites the section of the leading text).
C4_PlainFirstLine ==
    (pc = "formatted" /\ FirstLinePlain(content) /\ NoHeaderTitledHeader(content))
        => C4_HeaderRendered

\* a leading name line followed by a section
C4_Witness ==
    /\ pc = "formatted"
    /\ FirstLinePlain(content) /\ NoHeaderTitledHeader(content)
    /\ Len(sections) = 2
    /\ StartsWith(doc, <<"#"," ","J","a","n","e"," ","D","o","e","\n","\n","#","#"," ">>)

\* C5: no key of the map the parser returns maps to an empty or
\* whitespace-only body.
C5_NoBlankBody ==
    pc \in {"parsed", "formatted", "reparsed", "reformatted"} =>
        \A i \in 1..Len(sections) : ~IsBlank(sections[i].body)

\* a header with a blank body was dropped, another section was kept
C5_Witness ==
    /\ pc = "parsed"
    /\ \E i \in SynonymHeaderLines(LinesOf(content)) :
           /\ BodyBlank(LinesOf(content), i)
           /\ ~HasKey(sections, Canonical(LinesOf(content)[i]))
    /\ sections # <<>>

\* C6: parsing from a path fails with NotFound when the path does not exist,
\* before any read is attempted, and with Malformed when the file cannot be
\* read or its content is blank; in these cases no map is returned.
C6_FileErrors ==
    pc = "fileParsed" =>
        /\ fsCalls # <<>> /\ fsCalls[1] = "exists"
        /\ ~file.exists => (result = "NotFound" /\ fsCalls = <<"exists">>)
        /\ (file.exists /\ (~file.readable \/ IsBlank(file.text)))
               => result = "Malformed"
        /\ (file.exists /\ file.readable /\ ~IsBlank(file.text)) => result = "ok"
        /\ result # "ok" => sections = <<>>

\* a readable file of blanks only was refused
C6_Witness ==
    /\ pc = "fileParsed"
    /\ file.exists /\ file.readable /\ file.text # <<>> /\ IsBlank(file.text)
    /\ result = "Malformed"

\* C7 as stated: the text-level parse never returns a map for the empty
\* string or a whitespace-only text.
C7_Original ==
    (pc = "parsed" /\ IsBlank(content)) => result # "ok"

\* C7 (amended): parsing a file whose content is empty or whitespace-only
\* raises Malformed; the text-level parse of such a text raises nothing and
\* returns the empty map.
C7_BlankText ==
    /\ (pc = "fileParsed" /\ file.exists /\ file.readable /\ IsBlank(file.text))
           => (result = "Malformed" /\ sections = <<>>)
    /\ (pc = "parsed" /\ IsBlank(content)) => (result = "ok" /\ sections = <<>>)

\* the text-level parse returned the empty map for a text of blanks
C7_Witness ==
    /\ pc = "parsed"
    /\ content # <<>> /\ IsBlank(content)
    /\ result = "ok" /\ sections = <<>>

\* C8: format of the empty map is exactly the placeholder document, for
\* every template.
C8_EmptyMap ==
    (pc = "formatted" /\ sections = <<>>)
        => doc = <<"#"," ","R","e","s","u","m","e","\n","\n","*","N","o"," ","c","o","n","t","e","n","t"," ","a","v","a","i","l","a","b","l","e","*">>

\* the empty map was formatted under a template other than 'default'
C8_Witness ==
    /\ pc = "formatted"
    /\ sections = <<>>
    /\ template # <<"d","e","f","a","u","l","t">>
    /\ doc # <<>>

\* the fixed priority list, as the claim gives it
C9_Priority ==
    << <<"h","e","a","d","e","r">>, <<"c","o","n","t","a","c","t">>, <<"s","u","m","m","a","r","y">>, <<"e","x","p","e","r","i","e","n","c","e">>, <<"e","d","u","c","a","t","i","o","n">>, <<"s","k","i","l","l","s">>,
       <<"p","r","o","j","e","c","t","s">>, <<"c","e","r","t","i","f","i","c","a","t","i","o","n","s">>, <<"a","w","a","r","d","s">>, <<"l","a","n","g","u","a","g","e","s">>, <<"p","u","b","l","i","c","a","t","i","o","n","s">>,
       <<"r","e","f","e","r","e","n","c","e","s">> >>

\* C9: the order used by format is the priority list restricted to the keys
\* present, followed by the remaining keys in map order; every key occurs
\* exactly once and no name absent from the map occurs.
C9_Order ==
    (pc = "formatted" /\ sections # <<>>) =>
        /\ order = SelectSeq(C9_Priority, LAMBDA s : HasKey(sections, s))
                   \o SelectSeq(Keys(sections), LAMBDA k : ~InSeq(k, C9_Priority))
        /\ \A i \in 1..Len(sections) :
               Cardinality({j \in 1..Len(order) : order[j] = sections[i].name}) = 1
        /\ \A j \in 1..Len(order) : HasKey(sections, order[j])

\* a priority name between two other names: it comes first, the others keep
\* their map order
C9_Witness ==
    /\ pc = "formatted"
    /\ Keys(sections) = << <<"v","o","l","u","n","t","e","e","r","_","w","o","r","k">>, <<"s","k","i","l","l","s">>, <<"h","o","b","b","i","e","s">> >>
    /\ order = << <<"s","k","i","l","l","s">>, <<"v","o","l","u","n","t","e","e","r","_","w","o","r","k">>, <<"h","o","b","b","i","e","s">> >>

\* the blocks of the sections with non-blank bodies, in the computed order
C10_Blocks ==
    LET named == SelectSeq(order, LAMBDA s : ~IsBlank(Get(sections, s)))
    IN  [i \in 1..Len(named) |-> FormatSection(named[i], Get(sections, named[i]), template)]

\* C10: the document is the blocks of the sections with non-blank bodies, in
\* the computed order, joined by one blank line, and it neither starts nor
\* ends with a blank line.
C10_Joined ==
    (pc = "formatted" /\ sections # <<>>) =>
        /\ doc = Join(C10_Blocks, <<"\n","\n">>)
        /\ doc # <<>> => (doc[1] # NL /\ doc[Len(doc)] # NL)

-----------------------------------------------------------------------------
(* Claims C11..C20                                                         *)

\* the map is the single section n
OnlySection(n) == Len(sections) = 1 /\ sections[1].name = n

\* a line is fully upper case: it has a letter and no lower-case letter
FullyUpper(ln) ==
    /\ \E i \in 1..Len(ln) : ln[i] \in UpperLetters \cup LowerLetters
    /\ \A i \in 1..Len(ln) : ln[i] \notin LowerLetters

\* the rendering of one trimmed line of an experience body, as the claim
\* gives it
C11_Line(t) ==
    IF t = <<>> THEN <<>>
    ELSE IF t[1] \notin {"-", "*", "#"} /\ t[Len(t)] # ":" /\ ~FullyUpper(t)
    THEN <<"-"," ">> \o t
    ELSE t

C12_Skills(body) ==
    LET parts == Split(Strip(body), ",")
    IN  SelectSeq([i \in 1..Len(parts) |-> Strip(parts[i])], LAMBDA s : s # <<>>)

\* the packed content of a line of skills: the skills joined by ' • '
C12_Packed(cur) == Join(cur, <<" ",Bullet," ">>)

\* the greedy rule of the claim over the skills from the k-th on: a skill
\* starts a new line exactly when the current line is not empty and its packed
\* content with the skill appended would exceed 60 characters
RECURSIVE C12_Greedy(_, _, _, _)
C12_Greedy(skills, k, lines, cur) ==
    IF k > Len(skills) THEN (IF cur # <<>> THEN Append(lines, cur) ELSE lines)
    ELSE IF cur # <<>> /\ Len(C12_Packed(Append(cur, skills[k]))) > 60
    THEN C12_Greedy(skills, k + 1, Append(lines, cur), << skills[k] >>)
    ELSE C12_Greedy(skills, k + 1, lines, Append(cur, skills[k]))

\* C12: for a skills body with a comma and no newline, the bulleted lines are
\* those of the greedy rule, the same for the first line and for every later
\* line, and every output line that holds two or more skills has at most 60
\* characters of packed content.
C12_Packing ==
    (/\ pc = "formatted"
     /\ OnlySection(<<"s","k","i","l","l","s">>)
     /\ HasChar(sections[1].body, ",") /\ ~HasChar(Strip(sections[1].body), NL)) =>
        LET lines == C12_Greedy(C12_Skills(sections[1].body), 1, <<>>, <<>>)
            out == LinesOf(doc)
        IN  /\ doc = <<"#","#"," ","S","k","i","l","l","s","\n","\n">>
                     \o Join([i \in 1..Len(lines) |-> <<"-"," ">> \o C12_Packed(lines[i])], <<NL>>)
            /\ \A i \in 1..Len(out) :
                   (StartsWith(out[i], <<"-"," ">>) /\ HasChar(out[i], Bullet))
                       => Len(out[i]) - 2 <= 60

\* C13: the template identifier does not influence the output: for every
\* map and every template string, the document and the section order are
\* those of the template 'default'.
C13_TemplateIgnored ==
    pc = "formatted" =>
        /\ doc = FormatResume(sections, <<"d","e","f","a","u","l","t">>)
        /\ sections # <<>> => order = GetSectionOrder(sections, <<"d","e","f","a","u","l","t">>)

\* a map whose keys are not in priority order was formatted under the empty
\* template identifier
C13_Witness ==
    /\ pc = "formatted"
    /\ template = <<>>
    /\ Keys(sections) = << <<"h","o","b","b","i","e","s">>, <<"s","k","i","l","l","s">>, <<"h","e","a","d","e","r">> >>
    /\ order = << <<"h","e","a","d","e","r">>, <<"s","k","i","l","l","s">>, <<"h","o","b","b","i","e","s">> >>
    /\ doc # <<>>

\* a header line: an ATX header with a title
IsHeaderLine(ln) == IsAtx(ln) /\ HeaderTitle(ln) # <<>>

\* the name a header line normalizes to: the table's standard name for its
\* title, or the title in lower case
HeaderName(ln) ==
    IF TableRows(ln) # {} THEN Canonical(ln) ELSE Lower(HeaderTitle(ln))

\* the names of the lines of ls: for a header line the name it normalizes
\* to, for any other line <<>>
HeaderNames(ls) ==
    [i \in 1..Len(ls) |-> IF IsHeaderLine(ls[i]) THEN HeaderName(ls[i]) ELSE <<>>]

\* the positions of the header lines, given the names nm of the lines
HeaderLines(nm) == {i \in 1..Len(nm) : nm[i] # <<>>}

\* the occurrences of sections: the header lines, and 0 for the implicit
\* 'header' section of a text that starts with a non-header line
Occurrences(nm) == HeaderLines(nm) \cup (IF nm[1] # <<>> THEN {} ELSE {0})

OccName(nm, i) == IF i = 0 THEN <<"h","e","a","d","e","r">> ELSE nm[i]

\* the greatest and the least element of a non-empty set of numbers
MaxOf(S) == CHOOSE i \in S : \A j \in S : j <= i
MinOf(S) == CHOOSE i \in S : \A j \in S : i <= j

\* the last line of the occurrence at i: the line before the next header
OccEnd(nm, i) ==
    LET later == {j \in HeaderLines(nm) : j > i}
    IN  IF later = {} THEN Len(nm) ELSE MinOf(later) - 1

\* the body of the occurrence at i: its lines joined with '\n', trimmed
OccBody(ls, nm, i) == Strip(Join(SubSeq(ls, i + 1, OccEnd(nm, i)), <<NL>>))

\* the occurrence at i is followed by at least one line of its own
OccHasLines(nm, i) == OccEnd(nm, i) > i

\* the names that two or more header lines normalize to
DuplicateNames(nm) ==
    {nm[i] : i \in {i \in HeaderLines(nm) :
        \E j \in HeaderLines(nm) : j # i /\ nm[j] = nm[i]}}

\* C14 as stated: when two or more headers normalize to the same name, the
\* map holds at most one entry for that name and its body is the body of the
\* last occurrence.
C14_Original ==
    pc = "parsed" =>
        LET ls == LinesOf(content)
            nm == HeaderNames(ls)
        IN  \A n \in DuplicateNames(nm) :
                LET last == MaxOf({i \in HeaderLines(nm) : nm[i] = n})
                IN  /\ Cardinality({e \in 1..Len(sections) : sections[e].name = n}) <= 1
                    /\ HasKey(sections, n) => Get(sections, n) = OccBody(ls, nm, last)

\* C14 (amended): when two or more headers normalize to the same name, the
\* map holds at most one entry for that name; its body is the body of the
\* last occurrence of the name that is followed by at least one line before
\* the next header or the end of the text (an occurrence with no line of its
\* own commits nothing and overwrites nothing), and there is no entry when
\* that body is blank or when no occurrence has a line.
C14_LastWithLines ==
    pc = "parsed" =>
        LET ls == LinesOf(content)
            nm == HeaderNames(ls)
        IN  \A n \in DuplicateNames(nm) :
                LET E == {i \in Occurrences(nm) : OccName(nm, i) = n /\ OccHasLines(nm, i)}
                IN  /\ Cardinality({e \in 1..Len(sections) : sections[e].name = n}) <= 1
                    /\ HasKey(sections, n) <=> (E # {} /\ OccBody(ls, nm, MaxOf(E)) # <<>>)
                    /\ HasKey(sections, n) => Get(sections, n) = OccBody(ls, nm, MaxOf(E))

\* two headers of the same name, each with a body: the second body is kept
C14_Witness ==
    /\ pc = "parsed"
    /\ content = <<"#","#"," ","E","x","p","e","r","i","e","n","c","e","\n","J","a","n","e"," ","D","o","e","\n","#","#"," ","E","m","p","l","o","y","m","e","n","t","\n","P","y","t","h","o","n",","," ","G","o">>
    /\ sections = << [name |-> <<"e","x","p","e","r","i","e","n","c","e">>, body |-> <<"P","y","t","h","o","n",","," ","G","o">>] >>

\* no line of the text is recognized as a header
NoHeaderLine(text) ==
    \A i \in 1..Len(LinesOf(text)) : ExtractSectionName(LinesOf(text)[i]) = None

\* C15: a non-blank text in which no line is a header parses to exactly one
\* entry, keyed 'header', whose body is the whole text trimmed; and for every
\* text the parse returns a map (pairwise different keys) without raising.
C15_NoHeaders ==
    pc = "parsed" =>
        /\ result = "ok"
        /\ \A i, j \in 1..Len(sections) : i # j => sections[i].name # sections[j].name
        /\ (~IsBlank(content) /\ NoHeaderLine(content))
               => sections = << [name |-> <<"h","e","a","d","e","r">>, body |-> Strip(content)] >>

\* a text of three lines, none a header, with blank lines around and inside
C15_Witness ==
    /\ pc = "parsed"
    /\ content = <<"\n","J","a","n","e"," ","D","o","e","\n","\n","P","y","t","h","o","n",","," ","G","o">>
    /\ sections = << [name |-> <<"h","e","a","d","e","r">>, body |-> <<"J","a","n","e"," ","D","o","e","\n","\n","P","y","t","h","o","n",","," ","G","o">>] >>

\* the number of words of a body: of its pieces between whitespace
C16_Words(s) ==
    LET spaced == [i \in 1..Len(s) |-> IF s[i] \in Whitespace THEN " " ELSE s[i]]
    IN  Len(SelectSeq(Split(spaced, " "), LAMBDA w : w # <<>>))

\* the issues the claim lists for the map
C16_Expected ==
    LET missing == {n \in {<<"e","x","p","e","r","i","e","n","c","e">>, <<"e","d","u","c","a","t","i","o","n">>} : ~HasKey(sections, n)}
        empty == SelectSeq(sections, LAMBDA e : \A i \in 1..Len(e.body) : e.body[i] \in Whitespace)
        short == SelectSeq(sections, LAMBDA e : e.name \in {<<"e","x","p","e","r","i","e","n","c","e">>, <<"s","u","m","m","a","r","y">>}
                                                  /\ C16_Words(e.body) < 3)
    IN  {<<"M","i","s","s","i","n","g"," ","e","s","s","e","n","t","i","a","l"," ","s","e","c","t","i","o","n",":"," ">> \o n : n \in missing}
        \cup (IF empty = <<>> THEN {}
              ELSE {<<"E","m","p","t","y"," ","s","e","c","t","i","o","n","s"," ","f","o","u","n","d",":"," ">> \o Join(Keys(empty), <<","," ">>)})
        \cup (IF short = <<>> THEN {}
              ELSE {<<"S","e","c","t","i","o","n","s"," ","m","a","y"," ","n","e","e","d"," ","m","o","r","e"," ","d","e","t","a","i","l",":"," ">> \o Join(Keys(short), <<","," ">>)})

\* C16: the validation helper returns, without raising, a list that holds
\* exactly: one 'missing' issue for each of 'experience' and 'education' that
\* is not a key; one issue listing every section with a whitespace-only body,
\* iff there is one; one issue listing the 'experience'/'summary' sections of
\* fewer than 3 words, iff there is one.  The list is empty exactly when none
\* of these holds.
C16_Issues ==
    pc = "validated" =>
        /\ result = "ok"
        /\ {issues[i] : i \in 1..Len(issues)} = C16_Expected
        /\ Len(issues) = Cardinality(C16_Expected)

\* a map without 'education', with a whitespace-only section and a short
\* 'experience': three issues
C16_Witness ==
    /\ pc = "validated"
    /\ sections = << [name |-> <<"e","x","p","e","r","i","e","n","c","e">>, body |-> <<"L","e","d"," ","t","e","a","m">>],
                     [name |-> <<"s","k","i","l","l","s">>, body |-> <<" ","\n">>] >>
    /\ issues = << <<"M","i","s","s","i","n","g"," ","e","s","s","e","n","t","i","a","l"," ","s","e","c","t","i","o","n",":"," ","e","d","u","c","a","t","i","o","n">>,
                   <<"E","m","p","t","y"," ","s","e","c","t","i","o","n","s"," ","f","o","u","n","d",":"," ","s","k","i","l","l","s">>,
                   <<"S","e","c","t","i","o","n","s"," ","m","a","y"," ","n","e","e","d"," ","m","o","r","e"," ","d","e","t","a","i","l",":"," ","e","x","p","e","r","i","e","n","c","e">> >>

\* the non-blank lines of a body
NonBlankLines(body) == {i \in 1..Len(LinesOf(body)) : ~IsBlank(LinesOf(body)[i])}

\* the level-1 heading of the first non-blank line of the body, trimmed
C17_Heading(body) == <<"#"," ">> \o Strip(LinesOf(body)[MinOf(NonBlankLines(body))])

\* C17 as stated: through format, the header section renders as '# ' and the
\* first non-blank line of its body, trimmed, the remaining lines discarded,
\* and as '# Resume' when the body has no non-blank line.
C17_Original ==
    (pc = "formatted" /\ OnlySection(<<"h","e","a","d","e","r">>)) =>
        doc = IF NonBlankLines(sections[1].body) # {}
              THEN C17_Heading(sections[1].body)
              ELSE <<"#"," ","R","e","s","u","m","e">>

\* C17 (amended): through format, a header section whose body has a
\* non-blank line renders as '# ' and the first non-blank line of the body,
\* trimmed, the remaining lines discarded; a header section whose body has no
\* non-blank line is omitted from the document, as every section with a blank
\* body is: the fallback '# Resume' is never rendered by format.
C17_HeaderBlock ==
    (pc = "formatted" /\ OnlySection(<<"h","e","a","d","e","r">>)) =>
        doc = IF NonBlankLines(sections[1].body) # {}
              THEN C17_Heading(sections[1].body)
              ELSE <<>>

\* a header body that starts with a blank line and a padded line, with a
\* further line behind
C17_Witness ==
    /\ pc = "formatted"
    /\ OnlySection(<<"h","e","a","d","e","r">>)
    /\ sections[1].body = <<"\n"," ","J","a","n","e"," ","D","o","e"," "," ","\n","E","n","g","i","n","e","e","r">>
    /\ doc = <<"#"," ","J","a","n","e"," ","D","o","e">>

\* C18 as stated: a name precedes another in the map exactly when the first
\* header (or the implicit leading 'header' section) that introduces it
\* occurs earlier in the text than the first one introducing the other.
C18_Original ==
    pc = "parsed" =>
        LET nm == HeaderNames(LinesOf(content))
            First(n) == MinOf({i \in Occurrences(nm) : OccName(nm, i) = n})
        IN  \A a, b \in 1..Len(sections) :
                a < b <=> First(sections[a].name) < First(sections[b].name)

\* C18 (amended): the keys of the map are in the order of their first
\* commit: a name precedes another exactly when its first occurrence that is
\* followed by at least one line of its own (before the next header or the
\* end of the text) comes earlier in the text than the first such occurrence
\* of the other.  A header directly followed by another header does not
\* introduce its name.
C18_FirstCommitted ==
    pc = "parsed" =>
        LET nm == HeaderNames(LinesOf(content))
            First(n) == MinOf({i \in Occurrences(nm) :
                                  OccName(nm, i) = n /\ OccHasLines(nm, i)})
        IN  \A a, b \in 1..Len(sections) :
                a < b <=> First(sections[a].name) < First(sections[b].name)

\* 'skills' is seen first, without a line of its own, and committed last
C18_Witness ==
    /\ pc = "parsed"
    /\ content = <<"#","#"," ","S","k","i","l","l","s","\n","#","#"," ","E","x","p","e","r","i","e","n","c","e","\n","J","a","n","e"," ","D","o","e","\n","#","#"," ","S","k","i","l","l","s","\n","J","a","n","e"," ","D","o","e">>
    /\ Keys(sections) = << <<"e","x","p","e","r","i","e","n","c","e">>, <<"s","k","i","l","l","s">> >>

\* the text p occurs in the text s
Contains(s, p) == \E i \in 1..(Len(s) - Len(p) + 1) : SubSeq(s, i, i + Len(p) - 1) = p

\* C19: the exported document uses revised content where available and
\* falls back to raw content: for every section name that has revised
\* content the document holds the block of the revised text, and for every
\* section that has only raw content it holds the block of the raw text.
C19_Export ==
    pc = "exported" =>
        /\ \A i \in 1..Len(revised_content) :
               Contains(doc, FormatSection(revised_content[i].name,
                                           revised_content[i].body, template))
        /\ \A i \in 1..Len(raw_content) :
               ~HasRevisedContent(revised_content, raw_content[i].name)
                   => Contains(doc, FormatSection(raw_content[i].name,
                                                  raw_content[i].body, template))

\* the headers of the text have pairwise different names and non-blank bodies
C20_Applies ==
    LET ls == LinesOf(content)
        nm == HeaderNames(ls)
        H == HeaderLines(nm)
    IN  /\ H # {}
        /\ \A i, j \in H : i # j => nm[i] # nm[j]
        /\ \A i \in H : OccBody(ls, nm, i) # <<>>

\* C20: for a text whose headers have distinct normalized names and
\* non-blank bodies, every header's name is a key of the map, and its body is
\* exactly the text between its header line and the next header line (or the
\* end of the text), the lines joined with '\n' as they are and the whole
\* trimmed.
C20_Accumulated ==
    (pc = "parsed" /\ C20_Applies) =>
        LET ls == LinesOf(content)
            nm == HeaderNames(ls)
        IN  \A i \in HeaderLines(nm) :
                /\ HasKey(sections, nm[i])
                /\ Get(sections, nm[i]) = OccBody(ls, nm, i)

\* a body of three lines, the first one blank, behind a header
C20_Witness ==
    /\ pc = "parsed"
    /\ content = <<"#","#"," ","S","k","i","l","l","s","\n","\n","P","y","t","h","o","n",","," ","G","o","\n","J","a","n","e"," ","D","o","e">>
    /\ sections = << [name |-> <<"s","k","i","l","l","s">>, body |-> <<"P","y","t","h","o","n",","," ","G","o","\n","J","a","n","e"," ","D","o","e">>] >>

-----------------------------------------------------------------------------
(* Claims C21..C28                                                         *)

\* the header lines that are directly followed by another header line
DirectlyFollowed(nm) == {i \in HeaderLines(nm) : i + 1 \in HeaderLines(nm)}

\* C21: a header directly followed by another header produces no entry from
\* that occurrence: the entry of its name, if any, is that of the last
\* occurrence of the name that has a line of its own, and there is none when
\* no occurrence has one; the header that follows opens a fresh buffer: when
\* it has lines and no later occurrence of its name has, its entry holds
\* exactly the lines behind it.
C21_Consecutive ==
    pc = "parsed" =>
        LET ls == LinesOf(content)
            nm == HeaderNames(ls)
            WithLines(n) == {k \in Occurrences(nm) : OccName(nm, k) = n /\ OccHasLines(nm, k)}
        IN  \A i \in DirectlyFollowed(nm) :
                /\ i \notin WithLines(nm[i])
                /\ HasKey(sections, nm[i])
                       <=> (WithLines(nm[i]) # {}
                            /\ OccBody(ls, nm, MaxOf(WithLines(nm[i]))) # <<>>)
                /\ HasKey(sections, nm[i])
                       => Get(sections, nm[i]) = OccBody(ls, nm, MaxOf(WithLines(nm[i])))
                /\ (WithLines(nm[i + 1]) # {} /\ MaxOf(WithLines(nm[i + 1])) = i + 1
                    /\ OccBody(ls, nm, i + 1) # <<>>)
                       => (/\ HasKey(sections, nm[i + 1])
                           /\ Get(sections, nm[i + 1]) = OccBody(ls, nm, i + 1))

\* 'skills' directly followed by 'experience': no 'skills' entry, and the
\* lines behind go to 'experience'
C21_Witness ==
    /\ pc = "parsed"
    /\ content = <<"#","#"," ","S","k","i","l","l","s","\n","#","#"," ","E","x","p","e","r","i","e","n","c","e","\n","J","a","n","e"," ","D","o","e","\n","P","y","t","h","o","n",","," ","G","o">>
    /\ sections = << [name |-> <<"e","x","p","e","r","i","e","n","c","e">>, body |-> <<"J","a","n","e"," ","D","o","e","\n","P","y","t","h","o","n",","," ","G","o">>] >>

\* no specific synonym pattern matches the line
NoSpecificMatch(ln) ==
    \A k \in 1..Len(SECTION_PATTERNS) : MatchSpecific(Strip(ln), SECTION_PATTERNS[k]) = <<>>

\* a raw name in lower case, trimmed, and replaced by the table's standard
\* name when the table has it
C22_Normalized(raw) ==
    LET n == Strip(Lower(raw))
        rows == {i \in 1..Len(Mappings) : Mappings[i][1] = n}
    IN  IF rows = {} THEN n ELSE Mappings[CHOOSE i \in rows : TRUE][2]

\* C22 as stated: every line that after trimming is one or more '#',
\* optional whitespace and any remaining text is a header; when no specific
\* pattern matches, its name is the full remaining text, normalized.  A line
\* that after trimming does not start with '#' is never a header.
C22_Original ==
    pc = "extracted" =>
        /\ IsAtx(line) => name # None
        /\ (IsAtx(line) /\ NoSpecificMatch(line)) => name = C22_Normalized(HeaderTitle(line))
        /\ ~IsAtx(line) => name = None

\* C22 (amended): every line that after trimming is one or more '#',
\* optional whitespace and at least one further character is a header; when
\* no specific pattern matches, its name is the full remaining text,
\* normalized.  Of the lines that after trimming hold '#' only, a single '#'
\* is no header, and two or more '#' are a header named '#'.  A line that
\* after trimming does not start with '#' is never a header.
C22_Headers ==
    pc = "extracted" =>
        /\ (IsAtx(line) /\ HeaderTitle(line) # <<>>) => name # None
        /\ (IsAtx(line) /\ HeaderTitle(line) # <<>> /\ NoSpecificMatch(line))
               => name = C22_Normalized(HeaderTitle(line))
        /\ (IsAtx(line) /\ HeaderTitle(line) = <<>>)
               => name = IF Len(Strip(line)) = 1 THEN None ELSE <<"#">>
        /\ ~IsAtx(line) => name = None

\* a padded header with a title the table does not have
C22_Witness ==
    /\ pc = "extracted"
    /\ line = <<" "," ","#","#","#"," ","V","o","l","u","n","t","e","e","r"," ","W","o","r","k"," "," ">>
    /\ name = <<"v","o","l","u","n","t","e","e","r"," ","w","o","r","k">>

\* the canonical name of the synonyms of each specific pattern, in the order
\* of the patterns
C26_Canonical ==
    << <<"s","u","m","m","a","r","y">>, <<"e","x","p","e","r","i","e","n","c","e">>, <<"e","d","u","c","a","t","i","o","n">>, <<"s","k","i","l","l","s">>, <<"p","r","o","j","e","c","t","s">>,
       <<"c","e","r","t","i","f","i","c","a","t","i","o","n","s">>, <<"a","w","a","r","d","s">>, <<"c","o","n","t","a","c","t">>, <<"l","a","n","g","u","a","g","e","s">>, <<"p","u","b","l","i","c","a","t","i","o","n","s">>,
       <<"r","e","f","e","r","e","n","c","e","s">> >>

\* the specific patterns that match the line
C26_Matching(ln) ==
    {k \in 1..Len(SECTION_PATTERNS) : MatchSpecific(Strip(ln), SECTION_PATTERNS[k]) # <<>>}

\* C26: the specific synonym patterns match by prefix only: a header whose
\* title begins with a recognized synonym, whatever follows it, is keyed by
\* the canonical name of that synonym and the rest of the title is
\* discarded.
C26_Prefix ==
    (pc = "extracted" /\ C26_Matching(line) # {}) =>
        name = C26_Canonical[MinOf(C26_Matching(line))]

\* the lines of ls that have a non-whitespace character, each trimmed
TrimmedContent(ls) ==
    LET kept == SelectSeq(ls, LAMBDA l : ~IsBlank(l))
    IN  [i \in 1..Len(kept) |-> Strip(kept[i])]

\* the trimmed content lines of the bodies of the entries from the k-th on
RECURSIVE BodiesContent(_, _)
BodiesContent(map, k) ==
    IF k > Len(map) THEN <<>>
    ELSE TrimmedContent(LinesOf(map[k].body)) \o BodiesContent(map, k + 1)

\* no two sections of the text, the implicit 'header' section included,
\* have the same name
C23_Applies ==
    LET nm == HeaderNames(LinesOf(content))
    IN  \A i, j \in Occurrences(nm) : i # j => OccName(nm, i) # OccName(nm, j)

C24_SomeBlock ==
    (pc = "formatted" /\ sections # <<>>) =>
        /\ doc # <<>>
        /\ doc # <<"#"," ","R","e","s","u","m","e","\n","\n","*","N","o"," ","c","o","n","t","e","n","t"," ","a","v","a","i","l","a","b","l","e","*">>
        /\ \E i \in 1..Len(sections) :
               /\ FormatSection(sections[i].name, sections[i].body, template) # <<>>
               /\ Contains(doc, FormatSection(sections[i].name, sections[i].body, template))

\* the skills read from the bulleted lines from the k-th on: the pieces of
\* each line behind its '- ', between the bullets, trimmed
RECURSIVE C25_Read(_, _)
C25_Read(out, k) ==
    IF k > Len(out) THEN <<>>
    ELSE LET pieces == Split(SubSeq(out[k], 3, Len(out[k])), Bullet)
         IN  [i \in 1..Len(pieces) |-> Strip(pieces[i])] \o C25_Read(out, k + 1)

\* C25: for a skills body with a comma and no newline, the skills of the
\* output lines, read left to right and top to bottom, are exactly the
\* trimmed non-empty comma-separated items of the body, in order; every
\* output line is a bulleted line that holds a skill; and a body with a
\* newline or without a comma is emitted unchanged, trimmed, under
\* '## Skills'.
C25_Conserved ==
    (pc = "formatted" /\ OnlySection(<<"s","k","i","l","l","s">>) /\ ~IsBlank(sections[1].body)) =>
        LET c == Strip(sections[1].body)
            head == <<"#","#"," ","S","k","i","l","l","s","\n","\n">>
            rest == SubSeq(doc, Len(head) + 1, Len(doc))
            out == IF rest = <<>> THEN <<>> ELSE LinesOf(rest)
        IN  /\ StartsWith(doc, head)
            /\ IF HasChar(c, ",") /\ ~HasChar(c, NL)
               THEN /\ \A k \in 1..Len(out) : StartsWith(out[k], <<"-"," ">>) /\ Len(out[k]) > 2
                    /\ C25_Read(out, 1) = C12_Skills(sections[1].body)
               ELSE rest = c

\* three skills of different lengths on two lines, in order
C25_Witness ==
    /\ pc = "formatted"
    /\ OnlySection(<<"s","k","i","l","l","s">>)
    /\ C12_Skills(sections[1].body) = << Repeat("a", 40), Repeat("a", 28), Repeat("a", 29) >>
    /\ Len(LinesOf(doc)) = 4

\* the content a logged processing worked on: the content made from the
\* user's answers for a section that was blank, the raw content otherwise
C27_Current(e) ==
    IF IsBlank(e.before) /\ e.answers.given THEN e.answers.text ELSE e.before

\* C27: in the improvement workflow a section has revised content only if,
\* when it was processed, the proposal differed from the current content and
\* the user confirmed it, and the revised content differs from that current
\* content; and a section whose raw content was not blank when it was
\* processed keeps that raw content.
C27_Confirmed ==
    /\ \A i \in 1..Len(revised_content) :
           \E k \in 1..Len(log) :
               /\ log[k].section = revised_content[i].name
               /\ log[k].confirm /\ ~log[k].same
               /\ revised_content[i].body # C27_Current(log[k])
    /\ \A k \in 1..Len(log) :
           ~IsBlank(log[k].before)
               => (/\ HasKey(raw_content, log[k].section)
                   /\ Get(raw_content, log[k].section) = log[k].before)

\* a loaded resume of two sections: the proposal for the first was
\* confirmed, the proposal for the second declined
C27_Witness ==
    /\ pc = "done" /\ result = "completed"
    /\ Keys(raw_content) = << <<"h","e","a","d","e","r">>, <<"s","u","m","m","a","r","y">> >>
    /\ Keys(revised_content) = << <<"h","e","a","d","e","r">> >>
    /\ Len(log) = 2 /\ ~log[2].same /\ ~log[2].confirm
    /\ Get(raw_content, <<"h","e","a","d","e","r">>) = <<"J","a","n","e"," ","D","o","e">>

\* C28: whenever the workflow reaches the final summary the resume has at
\* least one section, and a run that is not interrupted completes without
\* reporting an unexpected error.
C28_SummaryDefined ==
    /\ pc = "exported" => Len(Keys(raw_content)) >= 1
    /\ (pc = "done" /\ result # "Interrupted") => result = "completed"

====
